---------------------------- MODULE Spec2Model ----------------------------
(***************************************************************************)
(* Z-Trail Drop (src/gametest.py, class SpiralGame) and its remote-control *)
(* wrapper (src/app.py).                                                   *)
(*                                                                         *)
(* Units.  The program computes with floats; the model computes with       *)
(* integers in fixed units:                                                *)
(*   time        milliseconds (pygame.time.get_ticks(); dt = ms / 1000.0)  *)
(*   distance    1/1000 pixel  (ball.distance, pipe_y, gadget distances)   *)
(*   speed       1/100 pixel per second (ball.speed)                       *)
(*   progress    1/1560 of the track, so that node i of the 40 track nodes *)
(*               (progress i/39) is 40*i and TURBO_PIPE_LENGTH (0.05) is   *)
(*               78; a placed gadget keeps the index of the node it was    *)
(*               snapped to (snap_progress_point, snap_progress_span)      *)
(* Products that the program rounds in floating point are rounded down.    *)
(***************************************************************************)
EXTENDS Integers, Sequences, FiniteSets, TLC

VARIABLES
    game,   \* the SpiralGame object: a record of its fields
    now,    \* pygame.time.get_ticks(), in ms
    op,     \* history: the last operation performed and its input
    steps,  \* history: what update_balls did to each ball in the last update
    boosted, \* history: when the speed boost was last activated, if ever
    session, \* app.py's GameSession around the game: its lock and its threads
    paid    \* history: how often each storm emitter on the track has paid

vars == <<game, now, op, steps, boosted, session, paid>>

---------------------------------------------------------------------------
(* Program constants (src/gametest.py).                                    *)

TRACK_NODE_COUNT == 40
SPAWN_INTERVAL == 300
ROUND_TIME == 60
PIPE_SPEED == 1000
BALL_RADIUS == 12
BALL_ACCEL == 180
BALL_MAX_SPEED == 480
BLOCK_SLOW_FACTOR == 35
BLOCK_BONUS == 2
BLOCK_DURATION == 5000
BLOCK_COOLDOWN_DURATION == 30000
BLOCK_UPGRADED_DURATION == 10000
SPEED_BOOST_DURATION == 3000
SPEED_BOOST_FACTOR == 2
SPEED_BOOST_COOLDOWN == 20000
SPECIAL_EGG_VALUE == 10
COIN_RAIN_RATE == 5
RAPID_FIRE_INTERVAL == 500
TURBO_PIPE_LENGTH == 78
TURBO_PIPE_MULTIPLIER == 101
BOUNCER_TRIGGER_REMOVALS == 3
BOUNCER_DROP_MIN == 3
BOUNCER_DROP_MAX == 5
STORM_ITEM_COST == 80
STORM_MIN_EGGS == 80
STORM_MAX_EGGS == 500
STORM_WINDOW_DURATION == 5000
STORM_WINDOW_TARGET == 20
STORM_ANIMATION_DURATION == 900
STORM_LIFETIME_MS == 10000
POWERUP_DELAY_MIN == 6000
POWERUP_DELAY_MAX == 11000
POWERUP_MAX_ACTIVE == 3
REMOVAL_BONUS == 3
REMOVAL_POPUP_DURATION == 900
PORTAL_COST == 10
PORTAL_ACTIVE_DURATION == 10000
PORTAL_COOLDOWN_DURATION == 40000
PORTAL_COOLDOWN_REDUCTION == 10000
ADVANCED_UNLOCK_LEVEL == 2
PASSIVE_UNLOCK_LEVEL == 1

PIPE_COST_SCHEDULE ==
    <<10, 20, 25, 40, 60, 180, 250, 400, 600, 800, 1000, 1500, 2000, 3000, 5000>>
BLOCK_COST_SCHEDULE ==
    <<16, 25, 30, 38, 40, 50, 100, 150, 200, 250, 300, 400, 500, 800, 1000, 1500>>
TURBO_PIPE_COST_SCHEDULE ==
    <<25, 45, 80, 100, 250, 800, 1500, 5000>>
BLOCK_COOLDOWN_REDUCTION_STEPS == <<10000, 5000, 2000, 1000>>

\* LEVEL_CONFIG: level -> target score, blocks enabled
LEVEL_CONFIG ==
    [l \in 1..4 |->
        CASE l = 1 -> [target |-> 180, blocks |-> FALSE]
          [] l = 2 -> [target |-> 300, blocks |-> TRUE]
          [] l = 3 -> [target |-> 3000, blocks |-> TRUE]
          [] OTHER -> [target |-> 20000, blocks |-> TRUE]]

SKILL_INFO == {"super_egg", "coin_rain", "rapid_fire"}

---------------------------------------------------------------------------
(* Track geometry.  build_z_path/cumulative_lengths give a polyline of     *)
(* total length 2327.03 px whose 40 nodes are 59.67 px apart; the model    *)
(* takes the nodes 60 px apart, so that node distances are whole numbers   *)
(* and a ball can land exactly on a node.                                  *)

NodeSpacing == 60000

track_total == (TRACK_NODE_COUNT - 1) * NodeSpacing

Nodes == 0 .. (TRACK_NODE_COUNT - 1)

\* y coordinate (1/1000 px) of each track node, track_nodes[i][1]; the track
\* runs downwards, so y grows with the node index
NodeY ==
    <<80000, 85402, 90804, 96206, 106908, 130117, 153326, 176535, 199744,
      222953, 246162, 269371, 290876, 298762, 306648, 314534, 322420, 330306,
      338191, 346077, 362180, 386413, 410646, 434879, 459112, 483345, 507579,
      531812, 550990, 554959, 558928, 562897, 566866, 570835, 574804, 578773,
      581871, 584581, 587290, 590000>>

track_node_y(i) == NodeY[i + 1]

Min(a, b) == IF a < b THEN a ELSE b
Max(a, b) == IF a > b THEN a ELSE b

\* progress units between two neighbouring nodes (build_track_nodes:
\* progress = idx / (count - 1))
NodeStep == 40

ProgressMax == (TRACK_NODE_COUNT - 1) * NodeStep

NodeProgress(i) == i * NodeStep

progress_to_distance(progress) ==
    Max(0, Min(progress, ProgressMax)) * (NodeSpacing \div NodeStep)

\* closest_track_node_index: bisect_left finds the first node at or after
\* the progress, and the node before it wins when it is at most as far away
closest_track_node_index(progress) ==
    LET p == Max(0, Min(progress, ProgressMax))
        idx == (p + NodeStep - 1) \div NodeStep
    IN  IF idx >= TRACK_NODE_COUNT THEN TRACK_NODE_COUNT - 1
        ELSE IF idx > 0 /\ (p - NodeStep * (idx - 1)) <= (NodeStep * idx - p)
             THEN idx - 1
        ELSE idx

\* snap_progress_point: the progress of the closest node
snap_progress_point(progress) == NodeProgress(closest_track_node_index(progress))

\* snap_progress_span once the closest nodes are found: the indices of two
\* distinct nodes, in track order
span_nodes(start_idx, end_idx) ==
    IF start_idx # end_idx THEN
        <<Min(start_idx, end_idx), Max(start_idx, end_idx)>>
    ELSE IF end_idx < TRACK_NODE_COUNT - 1 THEN <<start_idx, end_idx + 1>>
    ELSE IF start_idx > 0 THEN <<start_idx - 1, end_idx>>
    ELSE <<start_idx, end_idx>>

snap_progress_span(start_prog, end_prog) ==
    span_nodes(closest_track_node_index(start_prog),
               closest_track_node_index(end_prog))

\* place_pipe's geometry: the (entry node, exit node) pairs that
\* track_intersections_at_x, pick_intersection_pair and snap_progress_span
\* yield over all click positions of the play area
PipeSpans ==
    { <<0, 7>>, <<0, 8>>, <<1, 2>>, <<1, 6>>, <<1, 7>>, <<2, 3>>, <<2, 5>>,
      <<2, 6>>, <<3, 4>>, <<3, 5>>, <<4, 19>>, <<5, 18>>, <<5, 19>>, <<6, 17>>,
      <<6, 18>>, <<7, 16>>, <<7, 17>>, <<8, 9>>, <<8, 15>>, <<8, 16>>, <<9, 10>>,
      <<9, 14>>, <<9, 15>>, <<10, 11>>, <<10, 13>>, <<10, 14>>, <<11, 12>>,
      <<11, 13>>, <<13, 26>>, <<13, 27>>, <<14, 25>>, <<14, 26>>, <<15, 24>>,
      <<15, 25>>, <<16, 23>>, <<16, 24>>, <<17, 22>>, <<17, 23>>, <<18, 21>>,
      <<18, 22>>, <<19, 20>>, <<19, 21>>, <<20, 34>>, <<20, 35>>, <<21, 33>>,
      <<21, 34>>, <<22, 33>>, <<23, 32>>, <<23, 33>>, <<24, 31>>, <<24, 32>>,
      <<25, 30>>, <<25, 31>>, <<26, 29>>, <<26, 30>>, <<27, 28>>, <<27, 29>>,
      <<29, 30>>, <<30, 31>>, <<31, 32>>, <<32, 33>>, <<32, 38>>, <<32, 39>>,
      <<33, 37>>, <<33, 38>>, <<34, 36>>, <<34, 37>>, <<35, 36>>, <<36, 37>>,
      <<37, 38>>, <<38, 39>> }

---------------------------------------------------------------------------
(* Sequence helpers.                                                       *)

Range(s) == { s[i] : i \in 1..Len(s) }

\* a bag of ids, as a function id -> count
BagAdd(bag, id) ==
    IF id \in DOMAIN bag THEN [bag EXCEPT ![id] = @ + 1]
    ELSE [i \in DOMAIN bag \cup {id} |-> IF i = id THEN 1 ELSE bag[i]]

EmptyBag == [i \in {} |-> 0]

\* y, evaluated once the record x is: the loops below pass their state
\* through it so that each pass is computed before the next one starts
After(x, y) == IF DOMAIN x = {} THEN y ELSE y

---------------------------------------------------------------------------
(* Entities.  None is 0 for ids (ids start at 1) and NoPipe, NoBlock, ...  *)
(* for a pending placement that is absent.                                  *)

NewBall(uid, color_index, value, special) ==
    [ uid |-> uid,                 \* history: the order of creation
      color_index |-> color_index,
      distance |-> 0, last_distance |-> 0, speed |-> 0,
      in_pipe |-> FALSE, pipe_y |-> 0, pipe_id |-> 0,
      used_pipes |-> {}, block_hits |-> {}, turbo_hits |-> {},
      bonus_score |-> 0, score_value |-> value, coin_value |-> value,
      is_special |-> special,
      \* history: how often each gadget id has acted on this ball
      hist_pipe |-> EmptyBag, hist_block |-> EmptyBag, hist_turbo |-> EmptyBag ]

\* the dataclasses' values, without the history fields
BallValue(b) ==
    [ color_index |-> b.color_index, distance |-> b.distance,
      last_distance |-> b.last_distance, speed |-> b.speed,
      in_pipe |-> b.in_pipe, pipe_y |-> b.pipe_y, pipe_id |-> b.pipe_id,
      used_pipes |-> b.used_pipes, block_hits |-> b.block_hits,
      turbo_hits |-> b.turbo_hits, bonus_score |-> b.bonus_score,
      score_value |-> b.score_value, coin_value |-> b.coin_value,
      is_special |-> b.is_special ]

PipeItem(id, cost) ==
    [ id |-> id, cost |-> cost, entry_progress |-> 0, exit_progress |-> 0 ]

BlockItem(id, cost) ==
    [ id |-> id, cost |-> cost, progress |-> 0, spawn_ms |-> 0,
      is_active |-> FALSE, active_duration |-> BLOCK_DURATION,
      active_until_ms |-> 0, cooldown_duration |-> BLOCK_COOLDOWN_DURATION,
      cooldown_start_ms |-> 0, cooldown_end_ms |-> 0, upgrade_count |-> 0 ]

TurboPipeItem(id, cost) ==
    [ id |-> id, cost |-> cost, start_progress |-> 0, end_progress |-> 0,
      length_progress |-> TURBO_PIPE_LENGTH ]

BouncerItem(id, cost) ==
    [ id |-> id, cost |-> cost, progress |-> 0,
      removals_remaining |-> BOUNCER_TRIGGER_REMOVALS, ready_to_drop |-> FALSE ]

StormItem(id, cost) ==
    [ id |-> id, cost |-> cost, progress |-> 0, window_count |-> 0,
      counted_eggs |-> 0, animation_until |-> 0, last_reward |-> 0,
      settle_at |-> 0, expires_at |-> 0 ]

PortalItem(id, cost) ==
    [ id |-> id, cost |-> cost, progress |-> 0 ]

TrackPowerup(id, kind, progress) ==
    [ id |-> id, kind |-> kind, progress |-> progress ]

\* a pending placement is a sequence: empty (None) or holding the one item
None == <<>>
Some(x) == <<x>>

pipe_entry_y(pipe) == track_node_y(pipe.entry_progress \div NodeStep)
pipe_exit_y(pipe) == track_node_y(pipe.exit_progress \div NodeStep)

\* PortalItem.center[1] = int(y) of the node the portal is snapped to
portal_center_y(portal) == track_node_y(portal.progress \div NodeStep) \div 1000

---------------------------------------------------------------------------
(* Per-level switches.                                                     *)

level_target(g) == LEVEL_CONFIG[g.current_level].target
blocks_enabled(g) == LEVEL_CONFIG[g.current_level].blocks
turbo_enabled(g) == g.current_level >= 3
bouncer_enabled(g) == g.current_level >= 3
storm_enabled(g) == g.current_level >= 3
portal_enabled(g) == g.current_level >= 3

max_level == 4

speed_boost_active(g, t) ==
    g.speed_boost_unlocked /\ t < g.speed_boost_active_until

speed_boost_multiplier(g, t) ==
    IF speed_boost_active(g, t) THEN SPEED_BOOST_FACTOR ELSE 1

\* collectible_powerup_types, as a set
collectible_powerup_types(g) ==
    (IF g.speed_boost_unlocked THEN {"speed_boost"} ELSE {})
    \cup (IF storm_enabled(g) THEN {"storm"} ELSE {})
    \cup (IF bouncer_enabled(g) THEN {"bouncepad"} ELSE {})

available_skill_keys(g) ==
    (IF g.current_level >= 2 THEN {"super_egg"} ELSE {})
    \cup {"coin_rain"}
    \cup (IF g.current_level >= 3 THEN {"rapid_fire"} ELSE {})

\* add_coin_popup: a popup is kept as its expiry time
add_coin_popup(g, t) ==
    [g EXCEPT !.coin_popups = Append(@, t + REMOVAL_POPUP_DURATION)]

check_round_victory(g) ==
    IF g.round_result = "success" THEN g
    ELSE IF level_target(g) <= 0 THEN g
    ELSE IF g.score >= level_target(g) THEN [g EXCEPT !.round_result = "success"]
    ELSE g

\* remaining_time: the value returned
remaining_time_value(g, t) ==
    IF g.round_start_ms = None THEN ROUND_TIME
    ELSE Max(0, ROUND_TIME - ((t - g.round_start_ms[1]) \div 1000))

\* remaining_time as it would be without the test for a recorded success
remaining_time_overwriting(g, t) ==
    IF g.round_start_ms = None THEN g
    ELSE IF remaining_time_value(g, t) = 0 /\ g.round_active
         THEN [g EXCEPT !.round_active = FALSE, !.round_result = "fail"]
    ELSE g

\* remaining_time as it would be if it tested the result, not round_active
remaining_time_repeating(g, t) ==
    IF g.round_start_ms = None THEN g
    ELSE IF remaining_time_value(g, t) = 0 /\ g.round_result = "none"
         THEN [g EXCEPT !.round_result = "fail"]
    ELSE g

\* remaining_time: the side effect on the game
remaining_time(g, t) ==
    IF g.round_start_ms = None THEN g
    ELSE IF remaining_time_value(g, t) = 0 /\ g.round_active
         THEN [g EXCEPT !.round_active = FALSE,
                        !.round_result = IF @ # "success" THEN "fail" ELSE @]
    ELSE g

---------------------------------------------------------------------------
(* Ball advancement (update_balls and the effects it applies).             *)

\* the crossing test as it would be with both ends of the interval closed
crosses_closed(ball, target) ==
    ball.last_distance <= target /\ target <= ball.distance

\* last_distance < target <= distance
crosses(ball, target) == ball.last_distance < target /\ target <= ball.distance

\* get_pipe_by_id: the pipes with that id (none, or the one)
get_pipe_by_id(g, pipe_id) ==
    IF pipe_id = 0 THEN <<>>
    ELSE SelectSeq(g.pipes, LAMBDA p : p.id = pipe_id)

\* the pipe a ball not in transit enters: the first one in list order that
\* it has not used and whose entry it crossed
entered_pipe(g, ball) ==
    SelectSeq(g.pipes,
        LAMBDA p : /\ p.id \notin ball.used_pipes
                   /\ crosses(ball, progress_to_distance(p.entry_progress)))

\* the exit of a pipe as it would be if it left the ball where it entered
pipe_exit_in_place(ball, pipe) == ball.distance

\* ball.distance = max(ball.distance, exit_distance)
pipe_exit_distance(ball, pipe) ==
    Max(ball.distance, progress_to_distance(pipe.exit_progress))

\* apply_pipe.  ret is the return value; entered and exited are history
\* (the id of the pipe entered or left in this call, 0 for none)
\* apply_pipe as it would be if a ball in transit did not move
apply_pipe_holding(g, t, ball, dt) ==
    IF g.pipes = <<>> THEN
        [ball |-> ball, ret |-> FALSE, entered |-> 0, exited |-> 0]
    ELSE IF ball.in_pipe THEN
        LET found == get_pipe_by_id(g, ball.pipe_id) IN
        IF found = <<>> THEN
            [ball |-> [ball EXCEPT !.in_pipe = FALSE, !.pipe_id = 0],
             ret |-> FALSE, entered |-> 0, exited |-> 0]
        ELSE
            LET pipe == found[1]
                exit_y == pipe_exit_y(pipe)
                y == ball.pipe_y
                d == pipe_exit_distance(ball, pipe)
            IN  IF y >= exit_y THEN
                    [ball |-> [ball EXCEPT !.pipe_y = exit_y, !.in_pipe = FALSE,
                                  !.pipe_id = 0,
                                  !.used_pipes = @ \cup {pipe.id},
                                  !.distance = d, !.last_distance = d],
                     ret |-> TRUE, entered |-> 0, exited |-> pipe.id]
                ELSE
                    [ball |-> [ball EXCEPT !.pipe_y = y],
                     ret |-> TRUE, entered |-> 0, exited |-> 0]
    ELSE
        LET hit == entered_pipe(g, ball) IN
        IF hit = <<>> THEN
            [ball |-> ball, ret |-> FALSE, entered |-> 0, exited |-> 0]
        ELSE
            LET pipe == hit[1]
                d == Max(ball.distance, progress_to_distance(pipe.entry_progress))
            IN  [ball |-> [ball EXCEPT !.in_pipe = TRUE, !.pipe_id = pipe.id,
                              !.pipe_y = pipe_entry_y(pipe), !.speed = 0,
                              !.distance = d, !.last_distance = d,
                              !.hist_pipe = BagAdd(@, pipe.id)],
                 ret |-> TRUE, entered |-> pipe.id, exited |-> 0]

apply_pipe(g, t, ball, dt) ==
    IF g.pipes = <<>> THEN
        [ball |-> ball, ret |-> FALSE, entered |-> 0, exited |-> 0]
    ELSE IF ball.in_pipe THEN
        LET found == get_pipe_by_id(g, ball.pipe_id) IN
        IF found = <<>> THEN
            [ball |-> [ball EXCEPT !.in_pipe = FALSE, !.pipe_id = 0],
             ret |-> FALSE, entered |-> 0, exited |-> 0]
        ELSE
            LET pipe == found[1]
                exit_y == pipe_exit_y(pipe)
                y == ball.pipe_y + PIPE_SPEED * speed_boost_multiplier(g, t) * dt
                d == pipe_exit_distance(ball, pipe)
            IN  IF y >= exit_y THEN
                    [ball |-> [ball EXCEPT !.pipe_y = exit_y, !.in_pipe = FALSE,
                                  !.pipe_id = 0,
                                  !.used_pipes = @ \cup {pipe.id},
                                  !.distance = d, !.last_distance = d],
                     ret |-> TRUE, entered |-> 0, exited |-> pipe.id]
                ELSE
                    [ball |-> [ball EXCEPT !.pipe_y = y],
                     ret |-> TRUE, entered |-> 0, exited |-> 0]
    ELSE
        LET hit == entered_pipe(g, ball) IN
        IF hit = <<>> THEN
            [ball |-> ball, ret |-> FALSE, entered |-> 0, exited |-> 0]
        ELSE
            LET pipe == hit[1]
                d == Max(ball.distance, progress_to_distance(pipe.entry_progress))
            IN  [ball |-> [ball EXCEPT !.in_pipe = TRUE, !.pipe_id = pipe.id,
                              !.pipe_y = pipe_entry_y(pipe), !.speed = 0,
                              !.distance = d, !.last_distance = d,
                              !.hist_pipe = BagAdd(@, pipe.id)],
                 ret |-> TRUE, entered |-> pipe.id, exited |-> 0]

\* whether the ball's movement in this tick overlaps the turbo zone
turbo_overlaps(ball, turbo) ==
    /\ ball.last_distance < progress_to_distance(turbo.end_progress)
    /\ ball.distance > progress_to_distance(turbo.start_progress)

\* whether the zone's one-time doubling applies to the ball
turbo_first_entry(ball, turbo) ==
    /\ turbo.id \notin ball.turbo_hits
    /\ ball.last_distance <= progress_to_distance(turbo.start_progress)

\* the one-time doubling as it would be without the entry in turbo_hits
turbo_hit_untracked(ball, turbo) ==
    [ball EXCEPT
        !.score_value = @ * 2,
        !.speed = Min((@ * TURBO_PIPE_MULTIPLIER) \div 100,
                      BALL_MAX_SPEED * TURBO_PIPE_MULTIPLIER),
        !.hist_turbo = BagAdd(@, turbo.id)]

\* the one-time doubling of apply_turbo_effects
turbo_hit(ball, turbo) ==
    [ball EXCEPT
        !.score_value = @ * 2,
        !.speed = Min((@ * TURBO_PIPE_MULTIPLIER) \div 100,
                      BALL_MAX_SPEED * TURBO_PIPE_MULTIPLIER),
        !.turbo_hits = @ \cup {turbo.id},
        !.hist_turbo = BagAdd(@, turbo.id)]

RECURSIVE turbo_loop(_, _, _)
\* the for loop of apply_turbo_effects over turbo_pipes[i..]; acc holds the
\* ball, zone (whether zone_multiplier was raised) and doubled (history:
\* the ids whose doubling was applied)
turbo_loop(zones, i, acc) ==
    IF i > Len(zones) THEN acc
    ELSE
        LET turbo == zones[i]
            b == acc.ball
        IN  IF ~turbo_overlaps(b, turbo) THEN turbo_loop(zones, i + 1, acc)
            ELSE IF ~turbo_first_entry(b, turbo)
                 THEN turbo_loop(zones, i + 1, [acc EXCEPT !.zone = TRUE])
            ELSE turbo_loop(zones, i + 1,
                    [ ball |-> turbo_hit(b, turbo),
                      zone |-> TRUE,
                      doubled |-> acc.doubled \cup {turbo.id} ])

\* apply_turbo_effects.  popups is the number of bonus popups shown
apply_turbo_effects(g, ball, dt, speed_multiplier) ==
    IF g.turbo_pipes = <<>> THEN [ball |-> ball, doubled |-> {}, zone |-> FALSE]
    ELSE
        LET r == turbo_loop(g.turbo_pipes, 1,
                            [ball |-> ball, zone |-> FALSE, doubled |-> {}])
            b == r.ball
        IN  IF r.zone THEN
                \* extra = speed * mult * dt * (zone_multiplier - 1.0)
                [r EXCEPT !.ball.distance =
                    @ + (b.speed * speed_multiplier * dt
                         * (TURBO_PIPE_MULTIPLIER - 100)) \div 10000]
            ELSE
                [r EXCEPT !.ball.speed = Min(@, BALL_MAX_SPEED * 100)]

\* whether a block acts on the ball in apply_block_effects
block_fires(ball, block) ==
    /\ block.is_active
    /\ block.id \notin ball.block_hits
    /\ crosses(ball, progress_to_distance(block.progress))

\* the block effect as it would be without the slowing
block_hit_unslowed(ball, block) ==
    [ball EXCEPT
        !.block_hits = @ \cup {block.id},
        !.bonus_score = @ + BLOCK_BONUS,
        !.hist_block = BagAdd(@, block.id)]

\* the effect of a block on a ball that crosses it
block_hit(ball, block) ==
    [ball EXCEPT
        !.speed = Max((@ * BLOCK_SLOW_FACTOR) \div 100, 0),
        !.block_hits = @ \cup {block.id},
        !.bonus_score = @ + BLOCK_BONUS,
        !.hist_block = BagAdd(@, block.id)]

RECURSIVE block_loop(_, _, _)
\* the for loop of apply_block_effects over blocks[i..]
block_loop(blocks, i, acc) ==
    IF i > Len(blocks) THEN acc
    ELSE
        LET block == blocks[i]
            b == acc.ball
        IN  IF ~block_fires(b, block) THEN block_loop(blocks, i + 1, acc)
            ELSE block_loop(blocks, i + 1,
                    [ ball |-> block_hit(b, block),
                      fired |-> acc.fired \cup {block.id} ])

apply_block_effects(g, ball) ==
    block_loop(g.blocks, 1, [ball |-> ball, fired |-> {}])

\* the entry portal of apply_portal_effects: sorted(portals[:2],
\* key=center[1], reverse=True)[0], the one lower on the screen; the sort is
\* stable, so the first one wins a tie
entry_portal(g) ==
    IF portal_center_y(g.portals[2]) > portal_center_y(g.portals[1])
    THEN g.portals[2] ELSE g.portals[1]

exit_portal(g) ==
    IF portal_center_y(g.portals[2]) > portal_center_y(g.portals[1])
    THEN g.portals[1] ELSE g.portals[2]

\* apply_portal_effects without its test of portal_state
apply_portal_effects_ungated(g, ball) ==
    IF Len(g.portals) < 2 \/ ball.in_pipe THEN
        [ball |-> ball, teleported |-> FALSE]
    ELSE IF ~crosses(ball, progress_to_distance(entry_portal(g).progress)) THEN
        [ball |-> ball, teleported |-> FALSE]
    ELSE
        LET d == progress_to_distance(exit_portal(g).progress)
                 + (BALL_RADIUS * 1500)
        IN  [ball |-> [ball EXCEPT !.distance = d, !.last_distance = d,
                          !.speed = Max(@, BALL_ACCEL * 10)],
             teleported |-> TRUE]

apply_portal_effects(g, ball) ==
    IF Len(g.portals) < 2 \/ g.portal_state # "active" \/ ball.in_pipe THEN
        [ball |-> ball, teleported |-> FALSE]
    ELSE IF ~crosses(ball, progress_to_distance(entry_portal(g).progress)) THEN
        [ball |-> ball, teleported |-> FALSE]
    ELSE
        \* teleport_distance = exit_distance + BALL_RADIUS * 1.5
        LET d == progress_to_distance(exit_portal(g).progress)
                 + (BALL_RADIUS * 1500)
        IN  [ball |-> [ball EXCEPT !.distance = d, !.last_distance = d,
                          !.speed = Max(@, BALL_ACCEL * 10)],
             teleported |-> TRUE]

\* check_powerup_collision with collect_powerup: the game after the ball
\* picked up every power-up it crossed
check_powerup_collision(g, ball) ==
    IF g.track_powerups = <<>> \/ ball.in_pipe THEN g
    ELSE
        LET got(kind) ==
                Cardinality({ i \in 1..Len(g.track_powerups) :
                    /\ g.track_powerups[i].kind = kind
                    /\ crosses(ball, progress_to_distance(g.track_powerups[i].progress)) })
        IN  [g EXCEPT
                !.speed_boost_charges = @ + got("speed_boost"),
                !.storm_charges = @ + got("storm"),
                !.bouncepad_charges = @ + got("bouncepad"),
                !.track_powerups = SelectSeq(@, LAMBDA p :
                    ~crosses(ball, progress_to_distance(p.progress)))]

\* process_storm_pass without the crossing test: an open window counts
\* every ball on the track
process_storm_pass_any(g, t, ball) ==
    [g EXCEPT !.storm_emitters =
        [i \in 1..Len(@) |->
            IF /\ @[i].settle_at # 0
               /\ ~(t > @[i].settle_at)
            THEN [@[i] EXCEPT !.window_count = @ + 1]
            ELSE @[i]]]

\* process_storm_pass: every emitter whose window is open counts the ball
process_storm_pass(g, t, ball) ==
    [g EXCEPT !.storm_emitters =
        [i \in 1..Len(@) |->
            IF /\ @[i].settle_at # 0
               /\ ~(t > @[i].settle_at)
               /\ crosses(ball, progress_to_distance(@[i].progress))
            THEN [@[i] EXCEPT !.window_count = @ + 1]
            ELSE @[i]]]

\* The body of update_balls' for loop for one ball, statement by statement.
\* Each statement hands the game, the history record st of the step and the
\* result of the statement before to the next one; the last one returns the
\* game (power-ups, charges, emitters and popups change), the ball and
\* whether it is completed.

\* the history of a step, before anything happened
step_start(ball0) ==
    [ uid |-> ball0.uid, before |-> ball0,
      in_transit |-> FALSE, effects |-> FALSE,
      moved |-> ball0.distance, at_block |-> ball0.distance,
      doubled |-> {}, zone |-> FALSE, fired |-> {},
      active_blocks |-> {}, teleported |-> FALSE,
      entered |-> 0, exited |-> 0,
      completed |-> FALSE, after |-> ball0 ]

\* the movement as it would be with the displacement subtracted
integrate_backward(ball, multiplier, dt) ==
    [ball EXCEPT
        !.speed = Min(@ + (BALL_ACCEL * multiplier * dt) \div 10,
                      BALL_MAX_SPEED * 100),
        !.distance = @ - (Min(ball.speed + (BALL_ACCEL * multiplier * dt) \div 10,
                              BALL_MAX_SPEED * 100) * multiplier * dt) \div 100]

\* ball.speed = min(...); ball.distance += (ball.speed * multiplier) * dt
integrate(ball, multiplier, dt) ==
    [ball EXCEPT
        !.speed = Min(@ + (BALL_ACCEL * multiplier * dt) \div 10,
                      BALL_MAX_SPEED * 100),
        !.distance = @ + (Min(ball.speed + (BALL_ACCEL * multiplier * dt) \div 10,
                              BALL_MAX_SPEED * 100) * multiplier * dt) \div 100]

\* the ids of the blocks that are active
active_block_ids(g) ==
    { g.blocks[i].id : i \in { j \in 1..Len(g.blocks) : g.blocks[j].is_active } }

\* show_turbo_bonus_popup, once per doubling
show_turbo_bonus_popups(g, t, doubled) ==
    [g EXCEPT !.coin_popups =
        @ \o [k \in 1..Cardinality(doubled) |-> t + REMOVAL_POPUP_DURATION]]

\* the second `if self.apply_pipe(ball, dt): continue` and the completion test
step_end(g, st, p2) ==
    [ g |-> g,
      ball |-> p2.ball,
      completed |-> ~p2.ret /\ p2.ball.distance >= track_total,
      step |-> [st EXCEPT
                  !.entered = p2.entered,
                  !.exited = p2.exited,
                  !.completed = ~p2.ret /\ p2.ball.distance >= track_total,
                  !.after = p2.ball] ]

\* check_powerup_collision and process_storm_pass, after apply_portal_effects
step_portal(g, t, dt, st, po) ==
    step_end(process_storm_pass(check_powerup_collision(g, po.ball), t, po.ball),
             [st EXCEPT !.teleported = po.teleported],
             apply_pipe(g, t, po.ball, dt))

\* apply_portal_effects, after apply_block_effects
step_block(g, t, dt, st, bl) ==
    step_portal(g, t, dt, [st EXCEPT !.fired = bl.fired],
                apply_portal_effects(g, bl.ball))

\* apply_block_effects, after apply_turbo_effects
step_turbo(g, t, dt, st, tu) ==
    step_block(show_turbo_bonus_popups(g, t, tu.doubled), t, dt,
               [st EXCEPT !.at_block = tu.ball.distance,
                          !.doubled = tu.doubled, !.zone = tu.zone],
               apply_block_effects(g, tu.ball))

\* `if not ball.in_pipe:` the effects, after the ball moved
step_move(g, t, dt, st, b2) ==
    IF b2.in_pipe THEN
        step_end(g, [st EXCEPT !.moved = b2.distance, !.at_block = b2.distance],
                 apply_pipe(g, t, b2, dt))
    ELSE
        step_turbo(g, t, dt,
                   [st EXCEPT !.effects = TRUE, !.moved = b2.distance,
                              !.active_blocks = active_block_ids(g)],
                   apply_turbo_effects(g, b2, dt, speed_boost_multiplier(g, t)))

\* the first `if self.apply_pipe(ball, dt): continue`, and the movement
step_transit(g, t, dt, st, p1) ==
    IF p1.ret THEN
        [ g |-> g, ball |-> p1.ball, completed |-> FALSE,
          step |-> [st EXCEPT !.in_transit = TRUE, !.exited = p1.exited,
                              !.after = p1.ball] ]
    ELSE
        step_move(g, t, dt, st,
                  integrate(p1.ball, speed_boost_multiplier(g, t), dt))

step_ball(g, t, dt, ball0) ==
    step_transit(g, t, dt, step_start(ball0),
        apply_pipe(g, t, [ball0 EXCEPT !.last_distance = ball0.distance], dt))

\* what one pass of update_balls' for loop leaves: acc holds the game, the
\* balls so far, the indices of the completed ones and the history
pass_result(acc, i, r) ==
    [ g |-> r.g,
      balls |-> Append(acc.balls, r.ball),
      completed |-> IF r.completed THEN acc.completed \cup {i}
                    ELSE acc.completed,
      steps |-> Append(acc.steps, r.step) ]

ball_pass(t, dt, balls, i, acc) ==
    pass_result(acc, i, step_ball(acc.g, t, dt, balls[i]))

RECURSIVE balls_loop(_, _, _, _, _, _)
\* update_balls' for loop over balls[lo..hi], in list order (the range is
\* walked as its first half and then its second half)
balls_loop(t, dt, balls, lo, hi, acc) ==
    IF lo > hi THEN acc
    ELSE IF lo = hi THEN ball_pass(t, dt, balls, lo, acc)
    ELSE
        LET mid == (lo + hi) \div 2
            first == balls_loop(t, dt, balls, lo, mid, acc)
        IN  After(first, balls_loop(t, dt, balls, mid + 1, hi, first))

\* one pass of the scoring loop: a completed ball pays its value and bonus
\* the scoring of a completed ball as it would be without its bonus
score_pass_plain(g, ball) ==
    check_round_victory(
        [g EXCEPT !.score = @ + ball.score_value,
                  !.coins = @ + ball.coin_value])

score_pass(g, ball) ==
    check_round_victory(
        [g EXCEPT !.score = @ + ball.score_value + ball.bonus_score,
                  !.coins = @ + ball.coin_value + ball.bonus_score])

RECURSIVE score_loop(_, _, _, _)
\* the scoring loop over the completed balls fin[lo..hi], in list order
score_loop(g, fin, lo, hi) ==
    IF lo > hi THEN g
    ELSE IF lo = hi THEN score_pass(g, fin[lo])
    ELSE
        LET mid == (lo + hi) \div 2
            first == score_loop(g, fin, lo, mid)
        IN  After(first, score_loop(first, fin, mid + 1, hi))

\* the end of update_balls without its test of round_active: the completed
\* balls are scored whether or not the round is running
settle_completed_always(g, fin, left) ==
    [(IF fin # <<>>
      THEN score_loop(g, fin, 1, Len(fin)) ELSE g) EXCEPT !.balls = left]

\* the scoring of the completed balls fin, and self.balls without them
settle_completed(g, fin, left) ==
    [(IF fin # <<>> /\ g.round_active
      THEN score_loop(g, fin, 1, Len(fin)) ELSE g) EXCEPT !.balls = left]

\* what update_balls does once its for loop has returned r
settle_balls(r) ==
    [ g |-> settle_completed(r.g,
                SelectSeq(r.balls, LAMBDA b :
                    \E i \in r.completed : r.balls[i].uid = b.uid),
                SelectSeq(r.balls, LAMBDA b :
                    ~\E i \in r.completed : r.balls[i].uid = b.uid)),
      steps |-> r.steps ]

\* update_balls.  Returns the game and the history of the steps
update_balls(g, t, dt) ==
    settle_balls(balls_loop(t, dt, g.balls, 1, Len(g.balls),
                 [g |-> g, balls |-> <<>>, completed |-> {}, steps |-> <<>>]))

---------------------------------------------------------------------------
(* The other steps of update.  The draws of the random module are inputs:  *)
(* rnd.delay   next_powerup_delay()                                        *)
(* rnd.pu      spawn_track_powerup: ok (a free spot was found within the   *)
(*             eight tries), kind and progress of the power-up             *)
(* rnd.roll    trigger_storm's randint, as a fraction roll/RollMax of the  *)
(*             range STORM_MIN_EGGS .. max_reward                          *)
(* rnd.drops   spawn_bouncer_drops: one (kind, offset) per drop            *)

BALL_COLORS == 4

spawn_ball(g) ==
    LET n == g.spawned_ball_count + 1
        special == "super_egg" \in g.active_skills /\ n % 5 = 0
        value == IF special THEN SPECIAL_EGG_VALUE ELSE 1
    IN  [g EXCEPT !.spawned_ball_count = n,
                  !.balls = Append(@, NewBall(n, Len(g.balls) % BALL_COLORS,
                                              value, special))]

RECURSIVE spawn_balls(_, _)
\* spawn_ball, k times (as k \div 2 times, and then the rest)
spawn_balls(g, k) ==
    IF k <= 0 THEN g
    ELSE IF k = 1 THEN spawn_ball(g)
    ELSE LET first == spawn_balls(g, k \div 2)
         IN  After(first, spawn_balls(first, k - (k \div 2)))

activate_block(block, t) ==
    [block EXCEPT !.is_active = TRUE, !.spawn_ms = t,
                  !.active_until_ms = t + block.active_duration,
                  !.cooldown_start_ms = 0, !.cooldown_end_ms = 0]

\* begin_block_cooldown without its last two lines: a cooldown of no length
\* is begun like any other
begin_block_cooldown_always(block, t) ==
    [block EXCEPT !.is_active = FALSE, !.cooldown_start_ms = t,
                  !.cooldown_end_ms = t + block.cooldown_duration]

begin_block_cooldown(block, t) ==
    LET b == [block EXCEPT !.is_active = FALSE, !.cooldown_start_ms = t,
                           !.cooldown_end_ms = t + block.cooldown_duration]
    IN  IF block.cooldown_duration <= 0 THEN activate_block(b, t) ELSE b

update_block(block, t) ==
    IF block.is_active THEN
        LET b == IF block.active_until_ms = 0
                 THEN [block EXCEPT !.active_until_ms =
                           block.spawn_ms + block.active_duration]
                 ELSE block
        IN  IF t >= b.active_until_ms THEN begin_block_cooldown(b, t) ELSE b
    ELSE
        IF \/ block.cooldown_duration <= 0
           \/ block.cooldown_end_ms = 0
           \/ t >= block.cooldown_end_ms
        THEN activate_block(block, t) ELSE block

update_blocks(g, t) ==
    [g EXCEPT !.blocks = [i \in 1..Len(@) |-> update_block(@[i], t)]]

\* spawn_bouncer_drops: the drops land around the pad; a pad never drops
\* bounce-pad charges
spawn_bouncer_drops(g, t, bouncer, drops) ==
    LET count == Len(drops)
        options == collectible_powerup_types(g) \ {"bouncepad"}
        kind(k) == IF drops[k].kind \in options THEN drops[k].kind
                   ELSE IF options = {} THEN "speed_boost"
                   ELSE CHOOSE o \in options : TRUE
        new == [k \in 1..count |->
                   TrackPowerup(g.powerup_counter + k, kind(k),
                       Min(Max(bouncer.progress + drops[k].offset, 0), ProgressMax))]
    IN  add_coin_popup(
            [g EXCEPT !.powerup_counter = @ + count,
                      !.track_powerups = @ \o new], t)

RECURSIVE drop_loop(_, _, _, _, _)
drop_loop(g, t, triggered, i, drops) ==
    IF i > Len(triggered) THEN g
    ELSE drop_loop(
            spawn_bouncer_drops(
                [g EXCEPT !.bouncers =
                    SelectSeq(@, LAMBDA b : b.id # triggered[i].id)],
                t, triggered[i], drops),
            t, triggered, i + 1, drops)

bouncer_triggered(b) == b.ready_to_drop \/ b.removals_remaining <= 0

update_bouncer_supply(g, t, drops) ==
    IF g.bouncers = <<>> THEN g
    ELSE drop_loop(g, t, SelectSeq(g.bouncers, bouncer_triggered), 1, drops)

POWERUP_RADIUS == 20

\* the spot test of spawn_track_powerup (closer than three radii to a
\* power-up lying on the track), measured along the track
powerup_conflict(g, progress) ==
    \E i \in 1..Len(g.track_powerups) :
        LET d == progress_to_distance(g.track_powerups[i].progress)
                 - progress_to_distance(progress)
        IN  d < POWERUP_RADIUS * 3000 /\ (0 - d) < POWERUP_RADIUS * 3000

\* spawn_track_powerup; ok tells whether it returned True
spawn_track_powerup(g, pu) ==
    IF \/ collectible_powerup_types(g) = {}
       \/ ~pu.ok
       \/ powerup_conflict(g, pu.progress)
    THEN [g |-> g, ok |-> FALSE]
    ELSE [ g |-> [g EXCEPT !.powerup_counter = @ + 1,
                           !.track_powerups = Append(@,
                               TrackPowerup(g.powerup_counter + 1, pu.kind,
                                            pu.progress))],
           ok |-> TRUE ]

\* update_powerups without its test of the number on the track
update_powerups_uncapped(g, dt, rnd) ==
    IF ~g.round_active \/ g.round_start_ms = None THEN g
    ELSE
        LET g1 == [g EXCEPT !.powerup_spawn_timer = @ + dt] IN
        IF collectible_powerup_types(g) = {} THEN
            [g1 EXCEPT !.powerup_spawn_timer = 0]
        ELSE IF g1.powerup_spawn_timer >= g1.powerup_spawn_delay THEN
            LET r == spawn_track_powerup(g1, rnd.pu) IN
            IF r.ok THEN [r.g EXCEPT !.powerup_spawn_timer = 0,
                                     !.powerup_spawn_delay = rnd.delay]
            ELSE g1
        ELSE g1

update_powerups(g, dt, rnd) ==
    IF ~g.round_active \/ g.round_start_ms = None THEN g
    ELSE
        LET g1 == [g EXCEPT !.powerup_spawn_timer = @ + dt] IN
        IF collectible_powerup_types(g) = {} THEN
            [g1 EXCEPT !.powerup_spawn_timer = 0]
        ELSE IF Len(g.track_powerups) >= POWERUP_MAX_ACTIVE THEN g1
        ELSE IF g1.powerup_spawn_timer >= g1.powerup_spawn_delay THEN
            LET r == spawn_track_powerup(g1, rnd.pu) IN
            IF r.ok THEN [r.g EXCEPT !.powerup_spawn_timer = 0,
                                     !.powerup_spawn_delay = rnd.delay]
            ELSE g1
        ELSE g1

RollMax == 2

\* the reward trigger_storm draws: randint(STORM_MIN_EGGS, max_reward)
storm_max_reward(counted_eggs) ==
    Max(STORM_MIN_EGGS,
        Min(STORM_MAX_EGGS,
            STORM_MIN_EGGS
            + ((STORM_MAX_EGGS - STORM_MIN_EGGS)
               * Min(counted_eggs, Max(1, STORM_WINDOW_TARGET)))
              \div Max(1, STORM_WINDOW_TARGET)))

\* trigger_storm without its test of round_active: the reward is paid
\* whether or not the round is running
trigger_storm_always(g, t, i, roll) ==
    LET storm == g.storm_emitters[i] IN
    IF storm.last_reward > 0 THEN g
    ELSE
        LET counted == Max(storm.counted_eggs, storm.window_count)
            reward == STORM_MIN_EGGS
                      + ((storm_max_reward(counted) - STORM_MIN_EGGS) * roll)
                        \div RollMax
            g1 == [g EXCEPT !.storm_emitters[i] =
                      [@ EXCEPT !.counted_eggs = counted,
                                !.last_reward = reward,
                                !.animation_until = t + STORM_ANIMATION_DURATION,
                                !.expires_at = t + STORM_ANIMATION_DURATION,
                                !.window_count = 0,
                                !.settle_at = 0]]
        IN  check_round_victory([g1 EXCEPT !.score = @ + reward,
                                            !.coins = @ + reward])

\* trigger_storm without its call of check_round_victory
trigger_storm_unchecked(g, t, i, roll) ==
    LET storm == g.storm_emitters[i] IN
    IF storm.last_reward > 0 THEN g
    ELSE
        LET counted == Max(storm.counted_eggs, storm.window_count)
            reward == STORM_MIN_EGGS
                      + ((storm_max_reward(counted) - STORM_MIN_EGGS) * roll)
                        \div RollMax
            g1 == [g EXCEPT !.storm_emitters[i] =
                      [@ EXCEPT !.counted_eggs = counted,
                                !.last_reward = reward,
                                !.animation_until = t + STORM_ANIMATION_DURATION,
                                !.expires_at = t + STORM_ANIMATION_DURATION,
                                !.window_count = 0,
                                !.settle_at = 0]]
        IN  IF g.round_active
            THEN [g1 EXCEPT !.score = @ + reward, !.coins = @ + reward]
            ELSE g1

\* trigger_storm on the emitter storm_emitters[i]
trigger_storm(g, t, i, roll) ==
    LET storm == g.storm_emitters[i] IN
    IF storm.last_reward > 0 THEN g
    ELSE
        LET counted == Max(storm.counted_eggs, storm.window_count)
            reward == STORM_MIN_EGGS
                      + ((storm_max_reward(counted) - STORM_MIN_EGGS) * roll)
                        \div RollMax
            g1 == [g EXCEPT !.storm_emitters[i] =
                      [@ EXCEPT !.counted_eggs = counted,
                                !.last_reward = reward,
                                !.animation_until = t + STORM_ANIMATION_DURATION,
                                !.expires_at = t + STORM_ANIMATION_DURATION,
                                !.window_count = 0,
                                !.settle_at = 0]]
        IN  IF g.round_active
            THEN check_round_victory([g1 EXCEPT !.score = @ + reward,
                                                !.coins = @ + reward])
            ELSE g1

RECURSIVE storm_loop(_, _, _, _, _)
\* update_storm_emitters' for loop over storm_emitters[i..]; keep holds the
\* indices of the emitters that stay
storm_loop(g, t, i, roll, keep) ==
    IF i > Len(g.storm_emitters) THEN
        [g EXCEPT !.storm_emitters =
            [k \in 1..Cardinality(keep) |->
                @[CHOOSE j \in keep : Cardinality({ m \in keep : m < j }) = k - 1]]]
    ELSE
        LET s0 == g.storm_emitters[i]
            g1 == IF s0.settle_at # 0 /\ t >= s0.settle_at /\ s0.last_reward = 0
                  THEN trigger_storm(g, t, i, roll) ELSE g
            s1 == g1.storm_emitters[i]
            gone == IF s1.last_reward > 0
                    THEN s1.animation_until # 0 /\ t >= s1.animation_until
                    ELSE s1.expires_at # 0 /\ s1.expires_at <= t
        IN  storm_loop(g1, t, i + 1, roll, IF gone THEN keep ELSE keep \cup {i})

\* update_storm_emitters as it would be if an emitter whose display is over
\* opened a new window instead of leaving the track
update_storm_emitters_rearming(g, t, roll) ==
    IF g.storm_emitters = <<>> THEN g
    ELSE storm_loop(
             [g EXCEPT !.storm_emitters =
                 [k \in DOMAIN @ |->
                     IF @[k].last_reward > 0 /\ t >= @[k].animation_until
                     THEN [@[k] EXCEPT !.last_reward = 0,
                                       !.animation_until = 0,
                                       !.settle_at = t + STORM_WINDOW_DURATION,
                                       !.expires_at = t + STORM_LIFETIME_MS]
                     ELSE @[k]]],
             t, 1, roll, {})

update_storm_emitters(g, t, roll) ==
    IF g.storm_emitters = <<>> THEN g ELSE storm_loop(g, t, 1, roll, {})

update_coin_popups(g, t) ==
    [g EXCEPT !.coin_popups = SelectSeq(@, LAMBDA expires : expires > t)]

apply_skill_income(g, dt) ==
    IF "coin_rain" \notin g.active_skills \/ ~g.round_active THEN g
    ELSE [g EXCEPT !.skill_coin_timer = (@ + dt) % 1000,
                   !.coins = @ + COIN_RAIN_RATE * ((g.skill_coin_timer + dt) \div 1000)]

apply_rapid_fire(g, dt) ==
    IF "rapid_fire" \notin g.active_skills \/ ~g.round_active THEN g
    ELSE IF g.round_start_ms = None THEN g
    ELSE spawn_balls([g EXCEPT !.rapid_fire_timer = (@ + dt) % RAPID_FIRE_INTERVAL],
                     (g.rapid_fire_timer + dt) \div RAPID_FIRE_INTERVAL)

activate_portals(g, t) ==
    IF Len(g.portals) < 2
    THEN [g EXCEPT !.portal_state = "inactive", !.portal_active_until = 0,
                   !.portal_cooldown_until = 0]
    ELSE [g EXCEPT !.portal_state = "active",
                   !.portal_active_until = t + PORTAL_ACTIVE_DURATION,
                   !.portal_cooldown_until = 0]

\* update_portals as it would be if a pair that has just formed began
\* with its cooldown
update_portals_cooling_first(g, t) ==
    IF Len(g.portals) < 2
    THEN [g EXCEPT !.portal_state = "inactive", !.portal_active_until = 0,
                   !.portal_cooldown_until = 0]
    ELSE IF g.portal_state = "inactive"
    THEN [g EXCEPT !.portal_state = "cooldown",
                   !.portal_cooldown_until = t + PORTAL_COOLDOWN_DURATION,
                   !.portal_active_until = 0]
    ELSE IF g.portal_state = "active" THEN
        IF t >= g.portal_active_until
        THEN [g EXCEPT !.portal_state = "cooldown",
                       !.portal_cooldown_until = t + PORTAL_COOLDOWN_DURATION,
                       !.portal_active_until = 0]
        ELSE g
    ELSE IF g.portal_state = "cooldown" /\ t >= g.portal_cooldown_until
         THEN activate_portals(g, t)
    ELSE g

update_portals(g, t) ==
    IF Len(g.portals) < 2
    THEN [g EXCEPT !.portal_state = "inactive", !.portal_active_until = 0,
                   !.portal_cooldown_until = 0]
    ELSE IF g.portal_state = "inactive" THEN activate_portals(g, t)
    ELSE IF g.portal_state = "active" THEN
        IF t >= g.portal_active_until
        THEN [g EXCEPT !.portal_state = "cooldown",
                       !.portal_cooldown_until = t + PORTAL_COOLDOWN_DURATION,
                       !.portal_active_until = 0]
        ELSE g
    ELSE IF g.portal_state = "cooldown" /\ t >= g.portal_cooldown_until
         THEN activate_portals(g, t)
    ELSE g

\* the base spawn cadence as it would be with "if" in place of "while"
spawn_cadence_once(g, dt) ==
    IF g.round_active
    THEN IF g.spawn_timer + dt >= SPAWN_INTERVAL
         THEN spawn_ball([g EXCEPT !.spawn_timer = @ + dt - SPAWN_INTERVAL])
         ELSE [g EXCEPT !.spawn_timer = @ + dt]
    ELSE g

\* the base spawn cadence of update
spawn_cadence(g, dt) ==
    IF g.round_active
    THEN spawn_balls([g EXCEPT !.spawn_timer = (@ + dt) % SPAWN_INTERVAL],
                     (g.spawn_timer + dt) \div SPAWN_INTERVAL)
    ELSE g

\* update(dt) after update_balls returned b
update_rest(b, t, dt, rnd) ==
    [ g |-> update_portals(
              apply_rapid_fire(
                apply_skill_income(
                  update_coin_popups(
                    update_storm_emitters(
                      update_powerups(
                        update_bouncer_supply(update_blocks(b.g, t), t, rnd.drops),
                        dt, rnd),
                      t, rnd.roll),
                    t),
                  dt),
                dt),
              t),
      steps |-> b.steps ]

\* update(dt) as it would be without the test for a round that has not
\* started
update_unstarted(g, t, dt, rnd) ==
    update_rest(update_balls(spawn_cadence(g, dt), t, dt), t, dt, rnd)

\* update(dt).  Returns the game and the history of the ball steps
update(g, t, dt, rnd) ==
    IF g.round_start_ms = None THEN [g |-> g, steps |-> <<>>]
    ELSE update_rest(update_balls(spawn_cadence(g, dt), t, dt), t, dt, rnd)

---------------------------------------------------------------------------
(* Construction and reset_round.                                           *)

\* activate_block(clone, now) on a copy of the block
clone_block(block, t) ==
    activate_block(
        [BlockItem(block.id, block.cost) EXCEPT
            !.progress = block.progress,
            !.active_duration = block.active_duration,
            !.cooldown_duration = block.cooldown_duration,
            !.upgrade_count = block.upgrade_count], t)

clone_blocks(g, t) == [i \in 1..Len(g.blocks) |-> clone_block(g.blocks[i], t)]

clone_pipes(g) ==
    [i \in 1..Len(g.pipes) |->
        [PipeItem(g.pipes[i].id, g.pipes[i].cost) EXCEPT
            !.entry_progress = g.pipes[i].entry_progress,
            !.exit_progress = g.pipes[i].exit_progress]]

\* clone_turbo_pipes as it would be if it passed on the id and cost only
clone_turbo_pipes_unplaced(g) ==
    [i \in 1..Len(g.turbo_pipes) |->
        TurboPipeItem(g.turbo_pipes[i].id, g.turbo_pipes[i].cost)]

clone_turbo_pipes(g) ==
    [i \in 1..Len(g.turbo_pipes) |->
        [TurboPipeItem(g.turbo_pipes[i].id, g.turbo_pipes[i].cost) EXCEPT
            !.start_progress = g.turbo_pipes[i].start_progress,
            !.end_progress = g.turbo_pipes[i].end_progress,
            !.length_progress = g.turbo_pipes[i].length_progress]]

clone_bouncers(g) ==
    [i \in 1..Len(g.bouncers) |->
        [BouncerItem(g.bouncers[i].id, g.bouncers[i].cost) EXCEPT
            !.progress = g.bouncers[i].progress,
            !.removals_remaining = g.bouncers[i].removals_remaining,
            !.ready_to_drop = g.bouncers[i].ready_to_drop]]

clone_portals(g) ==
    [i \in 1..Len(g.portals) |->
        [PortalItem(g.portals[i].id, g.portals[i].cost) EXCEPT
            !.progress = g.portals[i].progress]]

clone_storm_emitters(g, t) ==
    [i \in 1..Len(g.storm_emitters) |->
        [StormItem(g.storm_emitters[i].id, g.storm_emitters[i].cost) EXCEPT
            !.progress = g.storm_emitters[i].progress,
            !.settle_at = t + STORM_WINDOW_DURATION,
            !.expires_at = t + STORM_LIFETIME_MS]]

start_round_clock(g, t) ==
    IF g.round_start_ms = None THEN [g EXCEPT !.round_start_ms = Some(t)] ELSE g

\* reset_round(level, carry_items); level 0 stands for None, delay is the
\* draw of next_powerup_delay()
reset_round(g, level, carry_items, t, delay) ==
    LET lvl == IF level = 0 THEN g.current_level ELSE Max(1, Min(level, max_level))
        keep(x, fresh) == IF carry_items THEN x ELSE fresh
        g1 == [ current_level |-> lvl,
                balls |-> <<>>, score |-> 0, coins |-> 0, spawn_timer |-> 0,
                round_start_ms |-> None, round_active |-> TRUE,
                round_result |-> "none",
                pipes |-> keep(clone_pipes(g), <<>>),
                placing_pipe |-> None,
                pipe_counter |-> keep(g.pipe_counter, 0),
                pipe_purchases |-> keep(g.pipe_purchases, 0),
                blocks |-> keep(clone_blocks(g, t), <<>>),
                block_counter |-> keep(g.block_counter, 0),
                block_purchases |-> keep(g.block_purchases, 0),
                placing_block |-> None,
                turbo_pipes |-> keep(clone_turbo_pipes(g), <<>>),
                turbo_counter |-> keep(g.turbo_counter, 0),
                turbo_purchases |-> keep(g.turbo_purchases, 0),
                placing_turbo_pipe |-> None,
                bouncers |-> keep(clone_bouncers(g), <<>>),
                bouncer_counter |-> keep(g.bouncer_counter, 0),
                bouncer_purchases |-> keep(g.bouncer_purchases, 0),
                placing_bouncer |-> None,
                storm_emitters |-> keep(clone_storm_emitters(g, t), <<>>),
                storm_counter |-> keep(g.storm_counter, 0),
                placing_storm |-> None,
                portals |-> keep(clone_portals(g), <<>>),
                portal_counter |-> keep(g.portal_counter, 0),
                portal_purchases |-> keep(g.portal_purchases, 0),
                placing_portal |-> None,
                portal_state |-> "inactive",
                portal_active_until |-> 0, portal_cooldown_until |-> 0,
                speed_boost_unlocked |-> lvl >= ADVANCED_UNLOCK_LEVEL,
                speed_boost_active_until |-> 0,
                speed_boost_cooldown_until |-> 0,
                active_skills |-> {},
                skill_selection_required |-> lvl >= PASSIVE_UNLOCK_LEVEL,
                skill_coin_timer |-> 0, rapid_fire_timer |-> 0,
                spawned_ball_count |-> 0,
                track_powerups |-> <<>>, powerup_counter |-> 0,
                powerup_spawn_timer |-> 0, powerup_spawn_delay |-> delay,
                coin_popups |-> <<>>,
                speed_boost_charges |-> 0, storm_charges |-> 0,
                bouncepad_charges |-> 0 ]
    IN  IF ~g1.skill_selection_required THEN start_round_clock(g1, t) ELSE g1

\* the fields __init__ sets before it calls reset_round()
Blank(start_level) ==
    [ current_level |-> Max(1, Min(start_level, max_level)),
      pipes |-> <<>>, pipe_counter |-> 0, pipe_purchases |-> 0,
      blocks |-> <<>>, block_counter |-> 0, block_purchases |-> 0,
      turbo_pipes |-> <<>>, turbo_counter |-> 0, turbo_purchases |-> 0,
      bouncers |-> <<>>, bouncer_counter |-> 0, bouncer_purchases |-> 0,
      storm_emitters |-> <<>>, storm_counter |-> 0,
      portals |-> <<>>, portal_counter |-> 0, portal_purchases |-> 0 ]

\* SpiralGame(start_level)
SpiralGame(start_level, t, delay) ==
    reset_round(Blank(start_level), 0, FALSE, t, delay)

---------------------------------------------------------------------------
(* Economy: prices and purchases.                                          *)

\* next_pipe_cost as it would be with the index wrapped, not clamped
next_pipe_cost_wrapping(g) ==
    PIPE_COST_SCHEDULE[(g.pipe_purchases % Len(PIPE_COST_SCHEDULE)) + 1]

next_pipe_cost(g) ==
    PIPE_COST_SCHEDULE[Min(g.pipe_purchases, Len(PIPE_COST_SCHEDULE) - 1) + 1]

next_block_cost(g) ==
    BLOCK_COST_SCHEDULE[Min(g.block_purchases, Len(BLOCK_COST_SCHEDULE) - 1) + 1]

next_turbo_cost(g) ==
    TURBO_PIPE_COST_SCHEDULE[
        Min(g.turbo_purchases, Len(TURBO_PIPE_COST_SCHEDULE) - 1) + 1]

next_portal_cost(g) == PORTAL_COST * (2 ^ g.portal_purchases)

next_storm_cost(g) == STORM_ITEM_COST

\* the test of the pending placements as it would be if it looked at the
\* pipe only
any_placing_pipe_only(g) == g.placing_pipe # None

\* whether any of the six pending placements is present
any_placing(g) ==
    \/ g.placing_pipe # None
    \/ g.placing_block # None
    \/ g.placing_turbo_pipe # None
    \/ g.placing_bouncer # None
    \/ g.placing_storm # None
    \/ g.placing_portal # None

\* try_purchase_pipe as it would be if the pipe were sold on credit
try_purchase_pipe_on_credit(g) ==
    IF any_placing(g) THEN g
    ELSE [g EXCEPT !.coins = @ - next_pipe_cost(g),
                   !.pipe_counter = @ + 1,
                   !.pipe_purchases = @ + 1,
                   !.placing_pipe =
                       Some(PipeItem(g.pipe_counter + 1, next_pipe_cost(g)))]

try_purchase_pipe(g) ==
    IF any_placing(g) THEN g
    ELSE IF g.coins < next_pipe_cost(g) THEN g
    ELSE [g EXCEPT !.coins = @ - next_pipe_cost(g),
                   !.pipe_counter = @ + 1,
                   !.pipe_purchases = @ + 1,
                   !.placing_pipe =
                       Some(PipeItem(g.pipe_counter + 1, next_pipe_cost(g)))]

\* try_purchase_block as it would be if the pending block took the next id
\* and the counter stayed behind
try_purchase_block_uncounted(g) ==
    IF ~blocks_enabled(g) THEN g
    ELSE IF any_placing(g) THEN g
    ELSE IF g.coins < next_block_cost(g) THEN g
    ELSE [g EXCEPT !.coins = @ - next_block_cost(g),
                   !.block_purchases = @ + 1,
                   !.placing_block =
                       Some(BlockItem(g.block_counter + 1, next_block_cost(g)))]

try_purchase_block(g) ==
    IF ~blocks_enabled(g) THEN g
    ELSE IF any_placing(g) THEN g
    ELSE IF g.coins < next_block_cost(g) THEN g
    ELSE [g EXCEPT !.coins = @ - next_block_cost(g),
                   !.block_counter = @ + 1,
                   !.block_purchases = @ + 1,
                   !.placing_block =
                       Some(BlockItem(g.block_counter + 1, next_block_cost(g)))]

try_purchase_turbo_pipe(g) ==
    IF ~turbo_enabled(g) THEN g
    ELSE IF any_placing(g) THEN g
    ELSE IF g.coins < next_turbo_cost(g) THEN g
    ELSE [g EXCEPT !.coins = @ - next_turbo_cost(g),
                   !.turbo_counter = @ + 1,
                   !.turbo_purchases = @ + 1,
                   !.placing_turbo_pipe =
                       Some(TurboPipeItem(g.turbo_counter + 1, next_turbo_cost(g)))]

try_activate_bouncepad(g) ==
    IF ~bouncer_enabled(g) THEN g
    ELSE IF g.placing_bouncer # None THEN g
    ELSE IF g.bouncepad_charges <= 0 THEN g
    ELSE IF any_placing(g) THEN g
    ELSE [g EXCEPT !.bouncepad_charges = Max(0, @ - 1),
                   !.bouncer_counter = @ + 1,
                   !.bouncer_purchases = @ + 1,
                   !.placing_bouncer = Some(BouncerItem(g.bouncer_counter + 1, 0))]

\* try_purchase_portal as it would be without the test of the coins
try_purchase_portal_on_credit(g) ==
    IF ~portal_enabled(g) THEN g
    ELSE IF any_placing(g) THEN g
    ELSE IF Len(g.portals) >= 2 /\ g.portal_state # "cooldown" THEN g
    ELSE [g EXCEPT !.coins = @ - next_portal_cost(g),
                   !.portal_counter = @ + 1,
                   !.portal_purchases = @ + 1,
                   !.placing_portal =
                       Some(PortalItem(g.portal_counter + 1, next_portal_cost(g)))]

try_purchase_portal(g) ==
    IF ~portal_enabled(g) THEN g
    ELSE IF any_placing(g) THEN g
    ELSE IF Len(g.portals) >= 2 /\ g.portal_state # "cooldown" THEN g
    ELSE IF g.coins < next_portal_cost(g) THEN g
    ELSE [g EXCEPT !.coins = @ - next_portal_cost(g),
                   !.portal_counter = @ + 1,
                   !.portal_purchases = @ + 1,
                   !.placing_portal =
                       Some(PortalItem(g.portal_counter + 1, next_portal_cost(g)))]

try_purchase_storm(g) ==
    IF ~storm_enabled(g) THEN g
    ELSE IF g.placing_storm # None THEN g
    ELSE IF g.storm_charges <= 0 THEN g
    ELSE IF any_placing(g) THEN g
    ELSE [g EXCEPT !.storm_counter = @ + 1,
                   !.storm_charges = Max(0, @ - 1),
                   !.placing_storm =
                       Some(StormItem(g.storm_counter + 1, next_storm_cost(g)))]

can_use_speed_boost(g, t) ==
    /\ g.speed_boost_unlocked
    /\ g.speed_boost_charges > 0
    /\ ~speed_boost_active(g, t)
    /\ t >= g.speed_boost_cooldown_until
    /\ g.round_active
    /\ g.round_start_ms # None

\* try_activate_speed_boost as it would be without the test of the cooldown
try_activate_speed_boost_at_once(g, t) ==
    IF ~(g.speed_boost_unlocked /\ g.speed_boost_charges > 0
         /\ ~speed_boost_active(g, t)
         /\ g.round_active /\ g.round_start_ms # None)
    THEN g
    ELSE [g EXCEPT !.speed_boost_active_until = t + SPEED_BOOST_DURATION,
                   !.speed_boost_cooldown_until =
                       t + SPEED_BOOST_DURATION + SPEED_BOOST_COOLDOWN,
                   !.speed_boost_charges = Max(0, @ - 1)]

try_activate_speed_boost(g, t) ==
    IF ~can_use_speed_boost(g, t) THEN g
    ELSE [g EXCEPT !.speed_boost_active_until = t + SPEED_BOOST_DURATION,
                   !.speed_boost_cooldown_until =
                       t + SPEED_BOOST_DURATION + SPEED_BOOST_COOLDOWN,
                   !.speed_boost_charges = Max(0, @ - 1)]

---------------------------------------------------------------------------
(* Placement.  A click on the play area is given by what the geometry      *)
(* routines make of its position: progress, the progress of the nearest    *)
(* point of the track (nearest_point_on_track), and span, the pair of      *)
(* nodes a pipe dropped there would join.  The click is taken to lie on    *)
(* the track, so its distance to a gadget is measured along the track,     *)
(* or between two nodes that face each other across a bend.                *)

\* pairs of distinct nodes whose centres are at most 30 px apart
ClosePairs30 == { <<3, 4>>, <<19, 20>>, <<33, 38>>, <<34, 37>>, <<35, 36>> }

\* pairs of distinct nodes whose (integer) centres are at most 40 px apart
ClosePairs40 ==
    { <<3, 4>>, <<11, 13>>, <<19, 20>>, <<27, 28>>, <<32, 39>>, <<33, 37>>,
      <<33, 38>>, <<34, 36>>, <<34, 37>>, <<35, 36>> }

on_node(progress) == progress % NodeStep = 0

\* math.hypot(px - x, py - y) <= radius, for a click at progress p and a
\* gadget at progress q
within(p, q, radius, pairs) ==
    \/ (IF p > q THEN p - q ELSE q - p) * (NodeSpacing \div NodeStep) <= radius * 1000
    \/ /\ on_node(p) /\ on_node(q)
       /\ \/ <<p \div NodeStep, q \div NodeStep>> \in pairs
          \/ <<q \div NodeStep, p \div NodeStep>> \in pairs

BLOCK_RADIUS == 18
PORTAL_INFUSION_RANGE == 40

\* the test as it would be if it looked at the point gadgets only
track_span_occupied_points_only(g, start_prog, end_prog) ==
    LET start == Max(0, Min(start_prog, end_prog))
        end == Min(ProgressMax, Max(start_prog, end_prog))
        span_contains(value) == start <= value /\ value <= end
    IN  \/ \E i \in 1..Len(g.blocks) : span_contains(g.blocks[i].progress)
        \/ \E i \in 1..Len(g.bouncers) : span_contains(g.bouncers[i].progress)
        \/ \E i \in 1..Len(g.storm_emitters) :
               span_contains(g.storm_emitters[i].progress)
        \/ \E i \in 1..Len(g.portals) : span_contains(g.portals[i].progress)

\* track_span_occupied
track_span_occupied(g, start_prog, end_prog) ==
    LET start == Max(0, Min(start_prog, end_prog))
        end == Min(ProgressMax, Max(start_prog, end_prog))
        span_contains(value) == start <= value /\ value <= end
    IN  \/ \E i \in 1..Len(g.blocks) : span_contains(g.blocks[i].progress)
        \/ \E i \in 1..Len(g.bouncers) : span_contains(g.bouncers[i].progress)
        \/ \E i \in 1..Len(g.storm_emitters) :
               span_contains(g.storm_emitters[i].progress)
        \/ \E i \in 1..Len(g.portals) : span_contains(g.portals[i].progress)
        \/ \E i \in 1..Len(g.turbo_pipes) :
               /\ Min(g.turbo_pipes[i].start_progress,
                      g.turbo_pipes[i].end_progress) <= end
               /\ Max(g.turbo_pipes[i].start_progress,
                      g.turbo_pipes[i].end_progress) >= start

track_point_occupied(g, progress) == track_span_occupied(g, progress, progress)

place_pipe(g, span) ==
    IF g.placing_pipe = None THEN g
    ELSE
        LET pipe == [g.placing_pipe[1] EXCEPT
                        !.entry_progress = NodeProgress(span[1]),
                        !.exit_progress = NodeProgress(span[2])]
        IN  [g EXCEPT
                \* append, then the stable sort by entry_progress
                !.pipes =
                    SelectSeq(@, LAMBDA q : q.entry_progress <= pipe.entry_progress)
                    \o <<pipe>>
                    \o SelectSeq(@, LAMBDA q : q.entry_progress > pipe.entry_progress),
                !.placing_pipe = None]

\* place_block as it would be if a click on a taken node dropped the
\* pending block
place_block_discarding(g, t, click_progress) ==
    IF g.placing_block = None THEN g
    ELSE
        LET progress == snap_progress_point(click_progress) IN
        IF track_point_occupied(g, progress)
        THEN [g EXCEPT !.placing_block = None]
        ELSE [g EXCEPT
                !.blocks = Append(@,
                    activate_block(
                        [g.placing_block[1] EXCEPT !.progress = progress], t)),
                !.placing_block = None]

place_block(g, t, click_progress) ==
    IF g.placing_block = None THEN g
    ELSE
        LET progress == snap_progress_point(click_progress) IN
        IF track_point_occupied(g, progress) THEN g
        ELSE [g EXCEPT
                !.blocks = Append(@,
                    activate_block(
                        [g.placing_block[1] EXCEPT !.progress = progress], t)),
                !.placing_block = None]

\* block_at_position: the index of the block found, 0 for None
block_at_position(g, click_progress) ==
    LET hits == { i \in 1..Len(g.blocks) :
                    within(click_progress, g.blocks[i].progress,
                           BLOCK_RADIUS + 12, ClosePairs30) }
    IN  IF hits = {} THEN 0 ELSE CHOOSE i \in hits : \A j \in hits : j <= i

\* apply_block_upgrade with the reduction always taken from the index
\* upgrade_count, held to the length of the list by one too few
apply_block_upgrade_short(block, t) ==
    LET dur == Max(block.active_duration, BLOCK_UPGRADED_DURATION)
        reduction ==
            IF block.upgrade_count < Len(BLOCK_COOLDOWN_REDUCTION_STEPS) - 1
            THEN BLOCK_COOLDOWN_REDUCTION_STEPS[block.upgrade_count + 1]
            ELSE BLOCK_COOLDOWN_REDUCTION_STEPS[Len(BLOCK_COOLDOWN_REDUCTION_STEPS) - 1]
        cd == Max(0, block.cooldown_duration - reduction)
        b1 == [block EXCEPT
                  !.active_duration = dur,
                  !.active_until_ms = IF block.is_active THEN block.spawn_ms + dur
                                      ELSE @,
                  !.cooldown_duration = cd,
                  !.upgrade_count = @ + 1]
    IN  IF block.is_active THEN b1
        ELSE
            LET b2 == [b1 EXCEPT !.cooldown_end_ms = block.cooldown_start_ms + cd]
            IN  IF b2.cooldown_end_ms <= t THEN activate_block(b2, t) ELSE b2

apply_block_upgrade(block, t) ==
    LET dur == Max(block.active_duration, BLOCK_UPGRADED_DURATION)
        reduction ==
            IF block.upgrade_count < Len(BLOCK_COOLDOWN_REDUCTION_STEPS)
            THEN BLOCK_COOLDOWN_REDUCTION_STEPS[block.upgrade_count + 1]
            ELSE BLOCK_COOLDOWN_REDUCTION_STEPS[Len(BLOCK_COOLDOWN_REDUCTION_STEPS)]
        cd == Max(0, block.cooldown_duration - reduction)
        b1 == [block EXCEPT
                  !.active_duration = dur,
                  !.active_until_ms = IF block.is_active THEN block.spawn_ms + dur
                                      ELSE @,
                  !.cooldown_duration = cd,
                  !.upgrade_count = @ + 1]
    IN  IF block.is_active THEN b1
        ELSE
            LET b2 == [b1 EXCEPT !.cooldown_end_ms = block.cooldown_start_ms + cd]
            IN  IF b2.cooldown_end_ms <= t THEN activate_block(b2, t) ELSE b2

\* try_upgrade_block; upgraded is its return value
try_upgrade_block(g, t, click_progress) ==
    LET i == block_at_position(g, click_progress) IN
    IF g.blocks = <<>> \/ i = 0 THEN [g |-> g, upgraded |-> FALSE]
    ELSE [ g |-> [g EXCEPT !.blocks[i] = apply_block_upgrade(@, t),
                           !.placing_block = None],
           upgraded |-> TRUE ]

\* place_turbo_pipe's widening of a span cut short by an end of the track
widen_span(s0, e0, length) ==
    IF e0 - s0 < length
    THEN <<Max(0, s0 - (length - (e0 - s0)) \div 2),
           Min(ProgressMax, e0 + (length - (e0 - s0)) \div 2)>>
    ELSE <<s0, e0>>

\* the span place_turbo_pipe lays around the click, before snapping
turbo_span(progress, length) ==
    widen_span(Max(0, progress - length \div 2),
               Min(ProgressMax, progress + length \div 2), length)

\* place_turbo_pipe once the span is snapped to the nodes start and end
lay_turbo_pipe(g, start_prog, end_prog) ==
    IF track_span_occupied(g, start_prog, end_prog) THEN g
    ELSE [g EXCEPT
            !.turbo_pipes =
                SelectSeq(@, LAMBDA q : q.start_progress <= start_prog)
                \o << [g.placing_turbo_pipe[1] EXCEPT
                          !.start_progress = start_prog,
                          !.end_progress = end_prog] >>
                \o SelectSeq(@, LAMBDA q : q.start_progress > start_prog),
            !.placing_turbo_pipe = None]

snapped_turbo_span(raw) == snap_progress_span(raw[1], raw[2])

lay_turbo_nodes(g, nodes) ==
    lay_turbo_pipe(g, NodeProgress(nodes[1]), NodeProgress(nodes[2]))

place_turbo_pipe(g, click_progress) ==
    IF g.placing_turbo_pipe = None THEN g
    ELSE lay_turbo_nodes(g,
            snapped_turbo_span(
                turbo_span(click_progress,
                           g.placing_turbo_pipe[1].length_progress)))

place_bouncer(g, t, click_progress, drops) ==
    IF g.placing_bouncer = None THEN g
    ELSE
        LET progress == snap_progress_point(click_progress) IN
        IF track_point_occupied(g, progress) THEN g
        ELSE update_bouncer_supply(
                [g EXCEPT
                    !.bouncers = Append(@,
                        [g.placing_bouncer[1] EXCEPT
                            !.progress = progress,
                            !.removals_remaining = BOUNCER_TRIGGER_REMOVALS,
                            !.ready_to_drop = FALSE]),
                    !.placing_bouncer = None],
                t, drops)

place_storm(g, t, click_progress) ==
    IF g.placing_storm = None THEN g
    ELSE
        LET progress == snap_progress_point(click_progress) IN
        IF track_point_occupied(g, progress) THEN g
        ELSE [g EXCEPT
                !.storm_emitters = Append(@,
                    [g.placing_storm[1] EXCEPT
                        !.progress = progress, !.window_count = 0,
                        !.counted_eggs = 0, !.animation_until = 0,
                        !.last_reward = 0,
                        !.settle_at = t + STORM_WINDOW_DURATION,
                        !.expires_at = t + STORM_LIFETIME_MS]),
                !.placing_storm = None]

\* try_accelerate_portal_cooldown at a node; done is its return value
try_accelerate_portal_cooldown(g, t, progress) ==
    IF g.portal_state # "cooldown" \/ Len(g.portals) < 2 THEN
        [g |-> g, done |-> FALSE]
    ELSE IF ~\E i \in 1..Len(g.portals) :
                within(progress, g.portals[i].progress,
                       PORTAL_INFUSION_RANGE, ClosePairs40) THEN
        [g |-> g, done |-> FALSE]
    ELSE
        LET remaining ==
                Max(0, Max(0, g.portal_cooldown_until - t)
                       - PORTAL_COOLDOWN_REDUCTION)
            g1 == IF remaining = 0 THEN activate_portals(g, t)
                  ELSE [g EXCEPT !.portal_cooldown_until = t + remaining]
        IN  [g |-> add_coin_popup(g1, t), done |-> TRUE]

place_portal(g, t, click_progress) ==
    IF g.placing_portal = None THEN g
    ELSE
        LET progress == snap_progress_point(click_progress) IN
        IF g.portal_state = "cooldown" /\ Len(g.portals) >= 2 THEN
            LET r == try_accelerate_portal_cooldown(g, t, progress) IN
            IF r.done THEN [r.g EXCEPT !.placing_portal = None] ELSE g
        ELSE IF track_point_occupied(g, progress) THEN g
        ELSE
            LET portal == [g.placing_portal[1] EXCEPT !.progress = progress]
                sorted == SelectSeq(g.portals, LAMBDA q : q.progress <= progress)
                          \o <<portal>>
                          \o SelectSeq(g.portals, LAMBDA q : q.progress > progress)
            IN  [g EXCEPT
                    \* portals[-2:] of the list sorted by progress
                    !.portals = IF Len(sorted) > 2
                                THEN SubSeq(sorted, Len(sorted) - 1, Len(sorted))
                                ELSE sorted,
                    !.placing_portal = None,
                    !.portal_state = "inactive",
                    !.portal_active_until = 0,
                    !.portal_cooldown_until = 0]

---------------------------------------------------------------------------
(* Clicks.  A click is a record: target names the button hit or "field"   *)
(* for the play area; key is the skill of a skill button; progress and     *)
(* span describe a click on the play area.                                 *)

toggle_skill(g, key) ==
    IF key \notin SKILL_INFO THEN g
    ELSE IF key \notin available_skill_keys(g) THEN g
    ELSE IF key \in g.active_skills
         THEN [g EXCEPT !.active_skills = @ \ {key}]
    ELSE [g EXCEPT !.active_skills = @ \cup {key}]

\* handle_skill_selection_click; handled is its return value
handle_skill_selection_click(g, t, c) ==
    IF g.current_level < PASSIVE_UNLOCK_LEVEL \/ ~g.skill_selection_required THEN
        [g |-> g, handled |-> FALSE]
    ELSE IF c.target = "skill" /\ c.key \in available_skill_keys(g) THEN
        [g |-> toggle_skill(g, c.key), handled |-> TRUE]
    ELSE IF c.target = "confirm" THEN
        [ g |-> IF g.active_skills # {}
                THEN start_round_clock(
                        [g EXCEPT !.skill_selection_required = FALSE], t)
                ELSE g,
          handled |-> TRUE ]
    ELSE [g |-> g, handled |-> FALSE]

speed_boost_ui_visible(g, t) ==
    speed_boost_active(g, t) \/ g.speed_boost_charges > 0

storm_ui_visible(g) == g.storm_charges > 0 \/ g.placing_storm # None

bouncepad_ui_visible(g) ==
    /\ bouncer_enabled(g)
    /\ \/ g.placing_bouncer # None
       \/ g.bouncepad_charges > 0
       \/ g.bouncers # <<>>

\* the placement branch of handle_click, for a click inside the play area
place_pending(g, t, c, drops) ==
    IF g.placing_pipe # None THEN place_pipe(g, c.span)
    ELSE IF g.placing_block # None THEN
        LET u == try_upgrade_block(g, t, c.progress) IN
        IF u.upgraded THEN u.g ELSE place_block(g, t, c.progress)
    ELSE IF g.placing_turbo_pipe # None THEN place_turbo_pipe(g, c.progress)
    ELSE IF g.placing_bouncer # None THEN place_bouncer(g, t, c.progress, drops)
    ELSE IF g.placing_storm # None THEN place_storm(g, t, c.progress)
    ELSE IF g.placing_portal # None THEN place_portal(g, t, c.progress)
    ELSE g

handle_click(g, t, c, drops) ==
    IF g.current_level >= PASSIVE_UNLOCK_LEVEL /\ g.skill_selection_required THEN
        handle_skill_selection_click(g, t, c).g
    ELSE IF handle_skill_selection_click(g, t, c).handled THEN
        handle_skill_selection_click(g, t, c).g
    ELSE IF c.target = "pipe_button" THEN try_purchase_pipe(g)
    ELSE IF blocks_enabled(g) /\ c.target = "block_button" THEN try_purchase_block(g)
    ELSE IF portal_enabled(g) /\ c.target = "portal_button" THEN try_purchase_portal(g)
    ELSE IF turbo_enabled(g) /\ c.target = "turbo_button"
         THEN try_purchase_turbo_pipe(g)
    ELSE IF storm_ui_visible(g) /\ c.target = "storm_button" THEN try_purchase_storm(g)
    ELSE IF speed_boost_ui_visible(g, t) /\ c.target = "speed_boost_button"
         THEN try_activate_speed_boost(g, t)
    ELSE IF bouncepad_ui_visible(g) /\ c.target = "bouncepad_button"
         THEN try_activate_bouncepad(g)
    ELSE IF c.target = "field" THEN place_pending(g, t, c, drops)
    ELSE g

---------------------------------------------------------------------------
(* Removal.  A secondary click on the play area is described like a        *)
(* primary one.  It lies in the rectangle of the pipes that were dropped   *)
(* at its spot (the pipes joining the nodes of its span) and is taken to   *)
(* be out of reach of the pipes dropped elsewhere; its distance to the     *)
(* other gadgets is measured as for a placement.                           *)

BOUNCER_RADIUS == 38
STORM_RADIUS == 42
PORTAL_RADIUS == 26

\* pairs of distinct nodes whose (integer) centres are at most radius px
\* apart, for the reaches of the turbo zones, portals, pads and emitters
ClosePairs(radius) ==
    CASE radius = 18 -> { <<19, 20>> }
      [] radius = PORTAL_RADIUS + 12 ->
            { <<3, 4>>, <<11, 13>>, <<19, 20>>, <<27, 28>>, <<32, 39>>,
              <<33, 38>>, <<34, 36>>, <<34, 37>>, <<35, 36>> }
      [] radius = BOUNCER_RADIUS + 12 ->
            { <<2, 5>>, <<3, 4>>, <<3, 5>>, <<11, 12>>, <<11, 13>>, <<18, 21>>,
              <<19, 20>>, <<27, 28>>, <<27, 29>>, <<31, 39>>, <<32, 38>>,
              <<32, 39>>, <<33, 37>>, <<33, 38>>, <<34, 36>>, <<34, 37>>,
              <<35, 36>> }
      [] radius = STORM_RADIUS + 12 ->
            { <<2, 5>>, <<3, 4>>, <<3, 5>>, <<11, 12>>, <<11, 13>>, <<18, 21>>,
              <<19, 20>>, <<26, 29>>, <<27, 28>>, <<27, 29>>, <<31, 39>>,
              <<32, 38>>, <<32, 39>>, <<33, 37>>, <<33, 38>>, <<34, 36>>,
              <<34, 37>>, <<35, 36>> }

\* `for item in reversed(items): if <in reach>: ...`: the index of the item
\* found, 0 for none
LastHit(items, Hit(_)) ==
    LET hits == { i \in 1..Len(items) : Hit(items[i]) }
    IN  IF hits = {} THEN 0 ELSE CHOOSE i \in hits : \A j \in hits : j <= i

\* items.remove(items[i])
Without(items, i) == SubSeq(items, 1, i - 1) \o SubSeq(items, i + 1, Len(items))

\* the remove_*_at functions; removed is their return value
remove_pipe_at(g, c) ==
    LET i == LastHit(g.pipes,
                 LAMBDA pipe : /\ pipe.entry_progress = NodeProgress(c.span[1])
                               /\ pipe.exit_progress = NodeProgress(c.span[2]))
    IN  IF i = 0 THEN [g |-> g, removed |-> FALSE]
        ELSE [g |-> [g EXCEPT !.pipes = Without(@, i)], removed |-> TRUE]

remove_block_at(g, c) ==
    LET i == LastHit(g.blocks,
                 LAMBDA block : within(c.progress, block.progress,
                                       BLOCK_RADIUS + 12, ClosePairs30))
    IN  IF i = 0 THEN [g |-> g, removed |-> FALSE]
        ELSE [g |-> [g EXCEPT !.blocks = Without(@, i)], removed |-> TRUE]

remove_turbo_pipe_at(g, c) ==
    LET i == LastHit(g.turbo_pipes,
                 LAMBDA turbo :
                     \/ /\ turbo.start_progress <= c.progress
                        /\ c.progress <= turbo.end_progress
                     \/ within(c.progress, turbo.start_progress, 18, ClosePairs(18))
                     \/ within(c.progress, turbo.end_progress, 18, ClosePairs(18)))
    IN  IF i = 0 THEN [g |-> g, removed |-> FALSE]
        ELSE [g |-> [g EXCEPT !.turbo_pipes = Without(@, i)], removed |-> TRUE]

remove_bouncer_at(g, c) ==
    LET i == LastHit(g.bouncers,
                 LAMBDA bouncer : within(c.progress, bouncer.progress,
                                         BOUNCER_RADIUS + 12,
                                         ClosePairs(BOUNCER_RADIUS + 12)))
    IN  IF i = 0 THEN [g |-> g, removed |-> FALSE]
        ELSE [g |-> [g EXCEPT !.bouncers = Without(@, i)], removed |-> TRUE]

remove_storm_at(g, c) ==
    LET i == LastHit(g.storm_emitters,
                 LAMBDA emitter : within(c.progress, emitter.progress,
                                         STORM_RADIUS + 12,
                                         ClosePairs(STORM_RADIUS + 12)))
    IN  IF i = 0 THEN [g |-> g, removed |-> FALSE]
        ELSE [g |-> [g EXCEPT !.storm_emitters = Without(@, i)],
              removed |-> TRUE]

remove_portal_at(g, c) ==
    LET i == LastHit(g.portals,
                 LAMBDA portal : within(c.progress, portal.progress,
                                        PORTAL_RADIUS + 12,
                                        ClosePairs(PORTAL_RADIUS + 12)))
    IN  IF i = 0 THEN [g |-> g, removed |-> FALSE]
        ELSE [g |-> [g EXCEPT !.portals = Without(@, i),
                              !.portal_state = "inactive",
                              !.portal_active_until = 0,
                              !.portal_cooldown_until = 0],
              removed |-> TRUE]

\* pending_bouncer_target: the index of the pad found, 0 for None
pending_bouncer_target(g) ==
    LET pending == { i \in 1..Len(g.bouncers) :
                        /\ ~g.bouncers[i].ready_to_drop
                        /\ g.bouncers[i].removals_remaining > 0 }
    IN  IF pending = {} THEN 0 ELSE CHOOSE i \in pending : \A j \in pending : i <= j

\* handle_tool_removed without its closing update_bouncer_supply
handle_tool_removed_lingering(g, t, drops) ==
    LET i == pending_bouncer_target(g) IN
    IF g.bouncers = <<>> \/ i = 0 THEN g
    ELSE [g EXCEPT !.bouncers[i] =
            [@ EXCEPT !.removals_remaining = Max(0, @ - 1),
                      !.ready_to_drop =
                          IF Max(0, g.bouncers[i].removals_remaining - 1) = 0
                          THEN TRUE ELSE @]]

handle_tool_removed(g, t, drops) ==
    LET i == pending_bouncer_target(g) IN
    IF g.bouncers = <<>> \/ i = 0 THEN g
    ELSE update_bouncer_supply(
            [g EXCEPT !.bouncers[i] =
                [@ EXCEPT !.removals_remaining = Max(0, @ - 1),
                          !.ready_to_drop =
                              IF Max(0, g.bouncers[i].removals_remaining - 1) = 0
                              THEN TRUE ELSE @]],
            t, drops)

\* try_remove_item_at: the removers in their order; kind is the kind
\* removed, "none" when the function returns False
try_remove_item_at(g, t, c, drops) ==
    IF remove_pipe_at(g, c).removed THEN
        [g |-> handle_tool_removed(remove_pipe_at(g, c).g, t, drops),
         kind |-> "pipe"]
    ELSE IF remove_block_at(g, c).removed THEN
        [g |-> handle_tool_removed(remove_block_at(g, c).g, t, drops),
         kind |-> "block"]
    ELSE IF remove_turbo_pipe_at(g, c).removed THEN
        [g |-> handle_tool_removed(remove_turbo_pipe_at(g, c).g, t, drops),
         kind |-> "turbo"]
    ELSE IF remove_bouncer_at(g, c).removed THEN
        [g |-> remove_bouncer_at(g, c).g, kind |-> "bouncer"]
    ELSE IF remove_storm_at(g, c).removed THEN
        [g |-> handle_tool_removed(remove_storm_at(g, c).g, t, drops),
         kind |-> "storm"]
    ELSE IF remove_portal_at(g, c).removed THEN
        [g |-> handle_tool_removed(remove_portal_at(g, c).g, t, drops),
         kind |-> "portal"]
    ELSE [g |-> g, kind |-> "none"]

\* the refund of handle_right_click, once try_remove_item_at returned r
removal_bonus(r, t) ==
    IF r.kind = "none" THEN r.g
    ELSE add_coin_popup([r.g EXCEPT !.coins = @ + REMOVAL_BONUS], t)

handle_right_click(g, t, c, drops) ==
    IF g.current_level >= PASSIVE_UNLOCK_LEVEL /\ g.skill_selection_required THEN g
    ELSE IF c.target # "field" THEN g
    ELSE removal_bonus(try_remove_item_at(g, t, c, drops), t)

---------------------------------------------------------------------------
(* The operations, as actions on the game.                                 *)

NoClick == [target |-> "none", key |-> "", progress |-> 0, span |-> <<0, 0>>]

SkillClick(key) == [NoClick EXCEPT !.target = "skill", !.key = key]
ButtonClick(name) == [NoClick EXCEPT !.target = name]
FieldClick(progress, span) ==
    [NoClick EXCEPT !.target = "field", !.progress = progress, !.span = span]

NoTimer ==
    [ value |-> ROUND_TIME, was_active |-> TRUE, was_result |-> "none",
      round_active |-> TRUE, round_result |-> "none" ]

\* the record of the last operation: its name, the frame's dt and what its
\* call of remaining_time returned and left behind, the click, and the
\* arguments of reset_round (level 0 when it was not called)
Op(name) ==
    [ name |-> name, dt |-> 0, timer |-> NoTimer, c |-> NoClick,
      level |-> 0, carry |-> FALSE ]

NoDrops == <<>>

\* app.py: the threads of a session, the worker that runs _loop and the
\* request handlers of the web server
Worker == 0

SessionHandlers == 2

Handlers == 1..SessionHandlers

\* GameSession.__init__: the lock free, not paused, no frame rendered yet,
\* the worker at the top of its loop and no request being served; served
\* counts the requests a handler has taken (history)
GameSession ==
    [ lock |-> None, paused |-> FALSE, last_frame |-> None,
      mouse_pos |-> NoClick,
      pc |-> [p \in {Worker} \cup Handlers |->
                 IF p = Worker THEN "tick" ELSE "idle"],
      request |-> [h \in Handlers |-> [kind |-> "none", c |-> NoClick]],
      returned |-> [h \in Handlers |-> None],
      served |-> [h \in Handlers |-> 0] ]

\* the ids of the storm emitters on the track
StormIds(g) == { g.storm_emitters[k].id : k \in DOMAIN g.storm_emitters }

\* the emitter with the id i
StormOf(g, i) ==
    g.storm_emitters[CHOOSE k \in DOMAIN g.storm_emitters :
                         g.storm_emitters[k].id = i]

\* how often the emitter i has paid, by the history p of pairs <<id, times>>
TimesPaid(p, i) ==
    IF \E e \in p : e[1] = i THEN (CHOOSE e \in p : e[1] = i)[2] ELSE 0

\* the emitters that trigger_storm pays in the step from g to g2: those it
\* settles (last_reward becomes positive) while the round is active
PaidNow(g, g2) ==
    { i \in StormIds(g) \cap StormIds(g2) :
        /\ g.round_active
        /\ StormOf(g, i).last_reward = 0
        /\ StormOf(g2, i).last_reward > 0 }

\* the history after the step from g to g2, kept for the emitters that are
\* still on the track
StormPaid(p, g, g2) ==
    { e \in { <<i, TimesPaid(p, i) + (IF i \in PaidNow(g, g2) THEN 1 ELSE 0)>> :
                 i \in StormIds(g2) } : e[2] > 0 }

\* SpiralGame(start_level), the window just opened
Construct(start_level, delay) ==
    /\ game = SpiralGame(start_level, 0, delay)
    /\ now = 0
    /\ op = Op("init")
    /\ steps = <<>>
    /\ boosted = None
    /\ session = GameSession
    /\ paid = {}

\* the frame once remaining_time() has left g1 and update(dt) has returned u
FrameDone(t, dt, g0, g1, u) ==
    /\ now' = t
    /\ game' = u.g
    /\ steps' = u.steps
    /\ UNCHANGED <<boosted, session>>
    /\ paid' = StormPaid(paid, g1, u.g)
    /\ op' = [Op("frame") EXCEPT
                !.dt = dt,
                !.timer = [ value |-> remaining_time_value(g0, t),
                            was_active |-> g0.round_active,
                            was_result |-> g0.round_result,
                            round_active |-> g1.round_active,
                            round_result |-> g1.round_result ]]

FrameTimed(t, dt, rnd, g1) ==
    FrameDone(t, dt, game, g1, update(g1, t, dt, rnd))

\* one iteration of run(): the clock advances by dt, then
\* remaining = self.remaining_time() and self.update(dt)
Frame(dt, rnd) ==
    /\ rnd.pu.ok => rnd.pu.kind \in collectible_powerup_types(game)
    /\ FrameTimed(now + dt, dt, rnd, remaining_time(game, now + dt))

\* MOUSEBUTTONDOWN, button 1: handle_click(pos)
Click(c, drops) ==
    /\ c.target = "field" => c.span \in PipeSpans \cup {<<0, 0>>}
    /\ game' = handle_click(game, now, c, drops)
    /\ op' = [Op("click") EXCEPT !.c = c]
    /\ steps' = <<>>
    /\ boosted' = IF game'.speed_boost_active_until # game.speed_boost_active_until
                  THEN Some(now) ELSE boosted
    /\ UNCHANGED <<now, session>>
    /\ paid' = StormPaid(paid, game, game')

\* MOUSEBUTTONDOWN, button 3: handle_right_click(pos)
RightClick(c, drops) ==
    /\ c.target = "field" => c.span \in PipeSpans \cup {<<0, 0>>}
    /\ game' = handle_right_click(game, now, c, drops)
    /\ op' = [Op("right_click") EXCEPT !.c = c]
    /\ steps' = <<>>
    /\ UNCHANGED <<now, boosted, session>>
    /\ paid' = StormPaid(paid, game, game')

\* the level after the current one, and whether the layout is carried
next_level(g) == IF g.current_level < max_level THEN g.current_level + 1 ELSE 1

\* carry_layout as it would be if every change of level carried the layout
carry_layout_always(g) == next_level(g) # g.current_level

carry_layout(g) == next_level(g) > g.current_level

\* K_RETURN in run() and command("next") in app.py
AdvanceLevel(delay) ==
    /\ game.round_result = "success"
    /\ game' = reset_round(game, next_level(game), carry_layout(game), now, delay)
    /\ op' = [Op("advance") EXCEPT !.level = next_level(game),
                                   !.carry = carry_layout(game)]
    /\ steps' = <<>>
    /\ UNCHANGED <<now, boosted, session>>
    /\ paid' = StormPaid(paid, game, game')

\* K_SPACE after a failed round and K_r after any ended round: reset_round(1)
Restart(key, delay) ==
    /\ ~game.round_active
    /\ key = "space" => game.round_result = "fail"
    /\ game' = reset_round(game, 1, FALSE, now, delay)
    /\ op' = [Op("restart") EXCEPT !.level = 1]
    /\ steps' = <<>>
    /\ UNCHANGED <<now, boosted, session>>
    /\ paid' = StormPaid(paid, game, game')

\* KEYDOWN in run(), as a whole: K_RETURN advances a round that is won;
\* else, once the round is over, K_SPACE restarts a failed round and K_r any
\* round; every other key does nothing here
KeyDown(key, delay) ==
    /\ game' =
          IF key = "return" /\ game.round_result = "success"
          THEN reset_round(game, next_level(game), carry_layout(game), now, delay)
          ELSE IF ~game.round_active
          THEN IF key = "space" /\ game.round_result = "fail"
               THEN reset_round(game, 1, FALSE, now, delay)
               ELSE IF key = "r" THEN reset_round(game, 1, FALSE, now, delay)
               ELSE game
          ELSE game
    /\ op' = [Op("key") EXCEPT
                 !.c = [NoClick EXCEPT !.key = key],
                 !.level =
                     IF key = "return" /\ game.round_result = "success"
                     THEN next_level(game)
                     ELSE IF ~game.round_active
                             /\ (key = "r" \/ (key = "space" /\ game.round_result = "fail"))
                     THEN 1 ELSE 0,
                 !.carry = /\ key = "return"
                           /\ game.round_result = "success"
                           /\ carry_layout(game)]
    /\ steps' = <<>>
    /\ UNCHANGED <<now, boosted, session>>
    /\ paid' = StormPaid(paid, game, game')

\* GameSession.command(action) in app.py, as a whole: the action, and then
\* the remaining_time() of _render_locked
Command(action, delay) ==
    /\ game' = remaining_time(
                  IF action = "retry"
                  THEN reset_round(game, game.current_level, FALSE, now, delay)
                  ELSE IF action = "next" /\ game.round_result = "success"
                  THEN reset_round(game, next_level(game), carry_layout(game),
                                   now, delay)
                  ELSE IF action = "reset"
                  THEN reset_round(game, 1, FALSE, now, delay)
                  ELSE game,
                  now)
    /\ op' = [Op("command") EXCEPT
                 !.c = [NoClick EXCEPT !.key = action],
                 !.level =
                     IF action = "retry" THEN game.current_level
                     ELSE IF action = "next" /\ game.round_result = "success"
                     THEN next_level(game)
                     ELSE IF action = "reset" THEN 1 ELSE 0,
                 !.carry = /\ action = "next"
                           /\ game.round_result = "success"
                           /\ carry_layout(game)]
    /\ steps' = <<>>
    /\ UNCHANGED <<now, boosted, session>>
    /\ paid' = StormPaid(paid, game, game')

\* the draws of one operation
Draws(delays, pus, rolls, dropss) == [delay : delays, pu : pus, roll : rolls, drops : dropss]

NoPowerup == [ok |-> FALSE, kind |-> "speed_boost", progress |-> 0]

---------------------------------------------------------------------------
(* The round: skill selection, the countdown, victory and failure.         *)
(* Long frames (a stalled window) let a whole round pass in a few steps.   *)

RoundMaxTime == 65000

RoundLevels == {1, 2}

RoundFrames == {5000, 20000}

RoundDraws == Draws({POWERUP_DELAY_MAX}, {NoPowerup}, {0}, {NoDrops})

RoundClicks ==
    { SkillClick(k) : k \in {"coin_rain", "super_egg"} }
    \cup { ButtonClick("confirm") }

InitRound == \E l \in RoundLevels : Construct(l, POWERUP_DELAY_MAX)

RoundFrame ==
    \E dt \in RoundFrames, rnd \in RoundDraws :
        now + dt <= RoundMaxTime /\ Frame(dt, rnd)

RoundClick == \E c \in RoundClicks : Click(c, NoDrops)

RoundAdvance == AdvanceLevel(POWERUP_DELAY_MAX) /\ now < RoundMaxTime

RoundRestart == \E key \in {"space", "r"} : Restart(key, POWERUP_DELAY_MAX)

NextRound == RoundFrame \/ RoundClick \/ RoundAdvance \/ RoundRestart

SpecRound == InitRound /\ [][NextRound]_vars

\* C1 (victory priority): once round_result is "success", no operation
\* other than a reset_round (the level advance, the restart) changes it:
\* not the timer expiry seen by remaining_time, not a frame, not a click.
C1_VictoryPriority ==
    [][ (game.round_result = "success" /\ op'.name \notin {"advance", "restart"})
        => game'.round_result = "success" ]_vars

\* a frame whose remaining_time saw the timer expire on a round already won
C1_Witness ==
    /\ op.name = "frame"
    /\ op.timer.value = 0
    /\ op.timer.was_active /\ op.timer.was_result = "success"
    /\ ~game.round_active
    /\ game.round_result = "success"

\* the instants at which remaining_time is probed in a state
ProbeTimes == { now + k * 5000 : k \in 0..13 }

\* C2 (round timer): remaining_time returns ROUND_TIME and changes nothing
\* while the round has not started, and returns ROUND_TIME at the start
\* instant; a call that computes 0 while round_active holds clears
\* round_active and records "fail" unless "success" is recorded; every
\* other call changes nothing, so that a call after the flip changes
\* nothing.
C2_RoundTimer ==
    /\ game.round_start_ms = None =>
            \A t \in ProbeTimes :
                /\ remaining_time_value(game, t) = ROUND_TIME
                /\ remaining_time(game, t) = game
    /\ game.round_start_ms # None =>
            /\ remaining_time_value(game, game.round_start_ms[1]) = ROUND_TIME
            /\ \A t \in ProbeTimes :
                   IF remaining_time_value(game, t) = 0 /\ game.round_active
                   THEN /\ remaining_time(game, t) =
                              [game EXCEPT
                                  !.round_active = FALSE,
                                  !.round_result =
                                      IF game.round_result = "success"
                                      THEN "success" ELSE "fail"]
                        /\ \A u \in ProbeTimes :
                               u >= t => remaining_time(remaining_time(game, t), u)
                                           = remaining_time(game, t)
                   ELSE remaining_time(game, t) = game
    /\ op.name = "frame" =>
            IF op.timer.value = 0 /\ op.timer.was_active
            THEN /\ ~op.timer.round_active
                 /\ op.timer.round_result =
                        IF op.timer.was_result = "success" THEN "success" ELSE "fail"
            ELSE /\ op.timer.round_active = op.timer.was_active
                 /\ op.timer.round_result = op.timer.was_result

\* a frame whose remaining_time saw the timer expire on a round not won
C2_Witness ==
    /\ op.name = "frame"
    /\ op.timer.value = 0
    /\ op.timer.was_active /\ op.timer.was_result = "none"
    /\ ~game.round_active
    /\ game.round_result = "fail"

---------------------------------------------------------------------------
(* The balls on a track with gadgets, at a level that has them all.  The   *)
(* player picks coin rain, lets two long frames pass to earn coins, builds *)
(* at one instant, and then the frames are one second long: balls then     *)
(* land on the nodes 3, 9, 17, 25 and 33 when nothing is in their way.     *)

BallsLevel == 3

BallsBuildAt == 15000

BallsMaxTime == 22000

\* the first frame boundary at or after the time t, the frames before the
\* build being 5000 ms long
BuildTime(t) == ((t + 4999) \div 5000) * 5000

\* a speed boost lying at node 30
BallsPowerup == [ok |-> TRUE, kind |-> "speed_boost", progress |-> NodeProgress(30)]

BallsDraws == Draws({POWERUP_DELAY_MAX}, {BallsPowerup}, {0}, {NoDrops})

\* where the player puts what is pending: the pipe from node 4 to node 19,
\* a block on node 3 or on node 19, the turbo zone on the nodes 20 and 21,
\* a portal on node 2 or on node 22
BallsSpots(g) ==
    IF g.placing_pipe # None THEN { FieldClick(0, <<4, 19>>) }
    ELSE IF g.placing_block # None
         THEN { FieldClick(NodeProgress(n), <<0, 0>>) : n \in {3, 19} }
    ELSE IF g.placing_turbo_pipe # None
         THEN { FieldClick(NodeProgress(20) + NodeStep \div 2, <<0, 0>>) }
    ELSE IF g.placing_portal # None
         THEN { FieldClick(NodeProgress(n), <<0, 0>>) : n \in {2, 22} }
    ELSE {}

BallsButtons ==
    { ButtonClick(b) : b \in {"pipe_button", "block_button", "turbo_button",
                              "portal_button"} }

InitBalls == Construct(BallsLevel, POWERUP_DELAY_MAX)

BallsSkills ==
    /\ now = 0
    /\ \E c \in {SkillClick("coin_rain"), ButtonClick("confirm")} :
           Click(c, NoDrops)

BallsFrame ==
    /\ now < BuildTime(BallsBuildAt) + (BallsMaxTime - BallsBuildAt)
    /\ \E rnd \in BallsDraws :
           Frame(IF now < BallsBuildAt THEN 5000 ELSE 1000, rnd)

BallsBuild ==
    /\ now = BuildTime(BallsBuildAt)
    /\ \E c \in BallsButtons \cup BallsSpots(game) : Click(c, NoDrops)

NextBalls == BallsSkills \/ BallsFrame \/ BallsBuild

SpecBalls == InitBalls /\ [][NextBalls]_vars

---------------------------------------------------------------------------
(* Claims about the ticks of the balls, checked under SpecBalls.  steps    *)
(* holds, for every ball of the last update_balls, the history of its pass *)
(* through the loop; the gadgets do not move between that call and the     *)
(* state, so their positions are read from game.                           *)

Once(bag) == \A id \in DOMAIN bag : bag[id] <= 1

OnceEach(ball) ==
    Once(ball.hist_pipe) /\ Once(ball.hist_block) /\ Once(ball.hist_turbo)

RECURSIVE Pow2(_)
Pow2(n) == IF n = 0 THEN 1 ELSE 2 * Pow2(n - 1)

\* the ball of step st comes, in this tick, from at or before the start of
\* the zone to beyond it
EntersZone(st, turbo) ==
    /\ st.effects
    /\ st.before.distance <= progress_to_distance(turbo.start_progress)
    /\ st.moved > progress_to_distance(turbo.start_progress)

\* C3: for every ball and gadget id, the block effect, the pipe entry and
\* the turbo doubling have each happened at most once, whatever the ticks
\* and teleports so far; a ball that enters a zone from before its start and
\* has not been doubled by it has score_value doubled in that tick, and a
\* ball already doubled by the zone is not doubled by it again.
C3_SingleTrigger ==
    /\ \A i \in 1..Len(game.balls) : OnceEach(game.balls[i])
    /\ \A i \in 1..Len(steps) :
        /\ OnceEach(steps[i].after)
        /\ steps[i].after.score_value
             = steps[i].before.score_value * Pow2(Cardinality(steps[i].doubled))
        /\ \A k \in 1..Len(game.turbo_pipes) :
            /\ (/\ EntersZone(steps[i], game.turbo_pipes[k])
                /\ game.turbo_pipes[k].id \notin steps[i].before.turbo_hits)
               => /\ game.turbo_pipes[k].id \in steps[i].doubled
                  /\ game.turbo_pipes[k].id \in steps[i].after.turbo_hits
            /\ game.turbo_pipes[k].id \in steps[i].before.turbo_hits
               => game.turbo_pipes[k].id \notin steps[i].doubled

\* a ball that a block has slowed, that went through a pipe, was doubled by
\* a zone and moved back by the portal enters the same zone again, and its
\* value stays
C3_Witness ==
    \E i \in 1..Len(steps) : \E k \in 1..Len(game.turbo_pipes) :
        /\ EntersZone(steps[i], game.turbo_pipes[k])
        /\ game.turbo_pipes[k].id \in steps[i].before.turbo_hits
        /\ steps[i].before.block_hits # {}
        /\ steps[i].before.used_pipes # {}
        /\ steps[i].after.score_value = steps[i].before.score_value
        /\ steps[i].before.score_value = 2 * steps[i].before.coin_value

\* a ball passes, without effect, an active block that has slowed it before
C3_WitnessBlock ==
    \E i \in 1..Len(steps) : \E k \in 1..Len(game.blocks) :
        /\ steps[i].effects
        /\ game.blocks[k].id \in steps[i].active_blocks
        /\ game.blocks[k].id \in steps[i].before.block_hits
        /\ steps[i].before.distance < progress_to_distance(game.blocks[k].progress)
        /\ progress_to_distance(game.blocks[k].progress) <= steps[i].at_block
        /\ steps[i].fired = {}

\* a ball passes, without entering, the entry of a pipe it went through
C3_WitnessPipe ==
    \E i \in 1..Len(steps) : \E k \in 1..Len(game.pipes) :
        /\ steps[i].effects
        /\ game.pipes[k].id \in steps[i].before.used_pipes
        /\ steps[i].before.distance < progress_to_distance(game.pipes[k].entry_progress)
        /\ progress_to_distance(game.pipes[k].entry_progress) <= steps[i].at_block
        /\ steps[i].entered = 0

\* the blocks that were active when the ball of step st was processed and
\* that it had not hit before the tick
FreshBlocks(st) ==
    { k \in 1..Len(game.blocks) :
        /\ game.blocks[k].id \in st.active_blocks
        /\ game.blocks[k].id \notin st.before.block_hits }

BlockDistance(k) == progress_to_distance(game.blocks[k].progress)

\* C4: in a tick in which the ball is not in a pipe, an active block it has
\* not hit yet acts on it if and only if pre-tick distance < block distance
\* <= distance after the tick's movement (the turbo zones' extra included,
\* which is added before the blocks are looked at).
C4_HalfOpenCrossing ==
    \A i \in 1..Len(steps) :
        steps[i].effects =>
            \A k \in FreshBlocks(steps[i]) :
                game.blocks[k].id \in steps[i].fired
                <=> (/\ steps[i].before.distance < BlockDistance(k)
                     /\ BlockDistance(k) <= steps[i].at_block)

\* in one tick, a ball that starts exactly on an active block it has not hit
\* moves on without effect, and a ball whose movement ends exactly on an
\* active block is slowed by it
C4_Witness ==
    /\ \E i \in 1..Len(steps) : \E k \in FreshBlocks(steps[i]) :
        /\ steps[i].effects
        /\ steps[i].before.distance = BlockDistance(k)
        /\ steps[i].at_block > BlockDistance(k)
        /\ game.blocks[k].id \notin steps[i].fired
        /\ steps[i].after.bonus_score = steps[i].before.bonus_score
    /\ \E i \in 1..Len(steps) : \E k \in FreshBlocks(steps[i]) :
        /\ steps[i].effects
        /\ steps[i].before.distance < BlockDistance(k)
        /\ steps[i].at_block = BlockDistance(k)
        /\ game.blocks[k].id \in steps[i].fired
        /\ steps[i].after.bonus_score = steps[i].before.bonus_score + BLOCK_BONUS

\* C5: in a tick without a teleport, a ball's distance does not decrease.
C5_MonotonicDistance ==
    \A i \in 1..Len(steps) :
        ~steps[i].teleported =>
            steps[i].after.distance >= steps[i].before.distance

\* one tick in which a ball enters a pipe, one leaves a pipe, one is slowed
\* by a block and one is in a turbo zone, none of them teleported
C5_Witness ==
    /\ \E i \in 1..Len(steps) :
        steps[i].entered # 0 /\ ~steps[i].teleported
    /\ \E i \in 1..Len(steps) :
        steps[i].exited # 0 /\ steps[i].in_transit
    /\ \E i \in 1..Len(steps) :
        /\ steps[i].fired # {} /\ ~steps[i].teleported
        /\ steps[i].after.distance > steps[i].before.distance
    /\ \E i \in 1..Len(steps) :
        steps[i].zone /\ ~steps[i].teleported

EntryDistance(k) == progress_to_distance(game.pipes[k].entry_progress)

ExitDistance(k) == progress_to_distance(game.pipes[k].exit_progress)

\* the ball of step st, not teleported in this tick, moves over the entry
\* of pipe k, which it has not been through
CrossesEntry(st, k) ==
    /\ st.effects
    /\ ~st.teleported
    /\ game.pipes[k].id \notin st.before.used_pipes
    /\ st.before.distance < EntryDistance(k)
    /\ EntryDistance(k) <= st.at_block

\* C7 as stated: a ball with positive speed that crosses the entry of a pipe
\* is, right after that tick, in the pipe with the pipe's id in used_pipes;
\* when its transit completes its distance is at least the exit distance.
C7_PipeSkipAsStated ==
    \A i \in 1..Len(steps) : \A k \in 1..Len(game.pipes) :
        /\ (CrossesEntry(steps[i], k) /\ steps[i].before.speed > 0)
           => /\ steps[i].after.in_pipe
              /\ game.pipes[k].id \in steps[i].after.used_pipes
        /\ steps[i].exited = game.pipes[k].id
           => steps[i].after.distance >= ExitDistance(k)

\* C7, amended: a ball that crosses the entry of a pipe it has not been
\* through (the first such pipe in list order) is, right after that tick, in
\* that pipe, stopped, at or beyond the entry, and used_pipes does not hold
\* the id yet; the tick in which its transit completes leaves it out of the
\* pipe, at or beyond the exit distance, with the id in used_pipes.
C7_PipeSkip ==
    \A i \in 1..Len(steps) : \A k \in 1..Len(game.pipes) :
        /\ (/\ CrossesEntry(steps[i], k)
            /\ \A j \in 1..(k - 1) : ~CrossesEntry(steps[i], j))
           => /\ steps[i].entered = game.pipes[k].id
              /\ steps[i].after.in_pipe
              /\ steps[i].after.pipe_id = game.pipes[k].id
              /\ steps[i].after.speed = 0
              /\ steps[i].after.distance >= EntryDistance(k)
              /\ game.pipes[k].id \notin steps[i].after.used_pipes
        /\ steps[i].exited = game.pipes[k].id
           => /\ ~steps[i].after.in_pipe
              /\ steps[i].after.distance >= ExitDistance(k)
              /\ game.pipes[k].id \in steps[i].after.used_pipes

\* in one tick a moving ball enters the pipe and another ball, which had
\* entered it before, comes out at the exit
C7_Witness ==
    \E k \in 1..Len(game.pipes) :
        /\ \E i \in 1..Len(steps) :
            /\ CrossesEntry(steps[i], k)
            /\ steps[i].before.speed > 0
            /\ steps[i].after.in_pipe
            /\ game.pipes[k].id \notin steps[i].after.used_pipes
        /\ \E i \in 1..Len(steps) :
            /\ steps[i].exited = game.pipes[k].id
            /\ steps[i].before.in_pipe
            /\ steps[i].before.distance < ExitDistance(k)
            /\ steps[i].after.distance = ExitDistance(k)

---------------------------------------------------------------------------
(* SpecSlow: a level-3 game in which the player, after ten seconds, puts   *)
(* blocks on the nodes 3 and 12 and a turbo zone on the nodes 10 and 11,   *)
(* and the frames that follow are slow and of uneven length (clock.tick    *)
(* returns whole milliseconds).  A ball that is slowed on node 3 in a      *)
(* frame of 1002 ms has speed 300 after a frame of 1316 ms.                *)

SlowLevel == 3

SlowBuildAt == 10000

SlowMaxTime == 13400

SlowFrames == {1000, 1002, 1316}

SlowSpots(g) ==
    IF g.placing_block # None
    THEN { FieldClick(NodeProgress(n), <<0, 0>>) : n \in {3, 12} }
    ELSE IF g.placing_turbo_pipe # None
         THEN { FieldClick(NodeProgress(10) + NodeStep \div 2, <<0, 0>>) }
    ELSE {}

SlowButtons == { ButtonClick(b) : b \in {"block_button", "turbo_button"} }

InitSlow == Construct(SlowLevel, POWERUP_DELAY_MAX)

SlowSkills ==
    /\ now = 0
    /\ \E c \in {SkillClick("coin_rain"), ButtonClick("confirm")} :
           Click(c, NoDrops)

SlowFrame ==
    \E dt \in (IF now < SlowBuildAt THEN {5000} ELSE SlowFrames) :
        /\ now + dt <= BuildTime(SlowBuildAt) + (SlowMaxTime - SlowBuildAt)
        /\ \E rnd \in BallsDraws : Frame(dt, rnd)

SlowBuild ==
    /\ now = BuildTime(SlowBuildAt)
    /\ \E c \in SlowButtons \cup SlowSpots(game) : Click(c, NoDrops)

NextSlow == SlowSkills \/ SlowFrame \/ SlowBuild

SpecSlow == InitSlow /\ [][NextSlow]_vars

\* the active blocks that the ball of step st moves over in its tick
CrossedBlocks(st) ==
    { k \in 1..Len(game.blocks) :
        /\ game.blocks[k].id \in st.active_blocks
        /\ st.before.distance < BlockDistance(k)
        /\ BlockDistance(k) <= st.at_block }

\* the ball of step st moves over exactly one active block in its tick, one
\* it has not hit before
CrossesOneBlock(st) ==
    /\ st.effects
    /\ Cardinality(CrossedBlocks(st)) = 1
    /\ \A k \in CrossedBlocks(st) : game.blocks[k].id \notin st.before.block_hits

\* C8 as stated: a ball that starts a tick with speed 300 and crosses exactly
\* one active block ends the tick with speed <= 105 and with bonus_score
\* raised by BLOCK_BONUS.
C8_BlockSlowAsStated ==
    \A i \in 1..Len(steps) :
        (CrossesOneBlock(steps[i]) /\ steps[i].before.speed = 300 * 100)
        => /\ steps[i].after.speed <= 105 * 100
           /\ steps[i].after.bonus_score
                = steps[i].before.bonus_score + BLOCK_BONUS

RECURSIVE Sped(_, _)
\* speed v after n turbo zones have doubled the ball
Sped(v, n) ==
    IF n = 0 THEN v
    ELSE Sped(Min((v * TURBO_PIPE_MULTIPLIER) \div 100,
                  BALL_MAX_SPEED * TURBO_PIPE_MULTIPLIER), n - 1)

\* the speed of the ball of step st once the tick has accelerated it and
\* the turbo zones that double it in this tick have sped it up
Accelerated(st) ==
    Sped(Min(st.before.speed
               + (BALL_ACCEL * speed_boost_multiplier(game, now) * op.dt) \div 10,
             BALL_MAX_SPEED * 100),
         Cardinality(st.doubled))

\* C8, amended: a ball that crosses exactly one active block it has not hit
\* ends the tick with speed <= 0.35 x the speed the tick's acceleration gave
\* it (at most BALL_MAX_SPEED; x TURBO_PIPE_MULTIPLIER for each zone that
\* doubles it in the same tick; a portal that moves it leaves it
\* BALL_ACCEL x 0.1 at least), and with bonus_score raised by BLOCK_BONUS
\* exactly once.
C8_BlockSlow ==
    \A i \in 1..Len(steps) :
        CrossesOneBlock(steps[i])
        => /\ steps[i].after.speed * 100
                <= Max(BLOCK_SLOW_FACTOR * Accelerated(steps[i]),
                       IF steps[i].teleported THEN BALL_ACCEL * 1000 ELSE 0)
           /\ steps[i].after.bonus_score
                = steps[i].before.bonus_score + BLOCK_BONUS
           /\ \A k \in CrossedBlocks(steps[i]) :
                /\ steps[i].fired = {game.blocks[k].id}
                /\ steps[i].after.hist_block[game.blocks[k].id] = 1

\* a ball that starts the tick with speed 300 crosses one active block and
\* ends the tick faster than 105: 0.35 x 480
C8_Witness ==
    \E i \in 1..Len(steps) :
        /\ CrossesOneBlock(steps[i])
        /\ steps[i].before.speed = 300 * 100
        /\ steps[i].doubled = {}
        /\ steps[i].after.speed = 168 * 100
        /\ steps[i].after.bonus_score = steps[i].before.bonus_score + BLOCK_BONUS

---------------------------------------------------------------------------
(* Claims about the shop.                                                  *)

\* schedule[min(n, len(schedule) - 1)], the schedule indexed from 0
SchedulePrice(schedule, n) ==
    IF n < Len(schedule) THEN schedule[n + 1] ELSE schedule[Len(schedule)]

RECURSIVE Doubled(_, _)
Doubled(x, n) == IF n = 0 THEN x ELSE Doubled(2 * x, n - 1)

\* the click c is a purchase attempt that game g's coins do not cover
Unaffordable(g, c) ==
    \/ /\ c.target = "pipe_button"
       /\ g.coins < SchedulePrice(PIPE_COST_SCHEDULE, g.pipe_purchases)
    \/ /\ c.target = "block_button"
       /\ g.coins < SchedulePrice(BLOCK_COST_SCHEDULE, g.block_purchases)
    \/ /\ c.target = "turbo_button"
       /\ g.coins < SchedulePrice(TURBO_PIPE_COST_SCHEDULE, g.turbo_purchases)
    \/ /\ c.target = "portal_button"
       /\ g.coins < Doubled(PORTAL_COST, g.portal_purchases)

\* C10: a click on the pipe, block, turbo or portal button while the coins
\* are fewer than the next price of that item leaves the whole game as it
\* was: coins, counters, pending placements and everything else.
C10_InsufficientCurrency ==
    [][ (op'.name = "click" /\ Unaffordable(game, op'.c)) => game' = game ]_vars

\* the round runs, nothing is pending, fewer than two portals are placed,
\* and the player, with some coins but fewer than the next portal costs, has
\* just clicked the portal button
C10_Witness ==
    /\ op.name = "click"
    /\ op.c.target = "portal_button"
    /\ ~game.skill_selection_required
    /\ game.round_active
    /\ ~any_placing(game)
    /\ Len(game.portals) < 2
    /\ game.coins > 0
    /\ Unaffordable(game, op.c)

---------------------------------------------------------------------------
(* SpecShop: the prices read nothing but the purchase counters, which only *)
(* grow while layouts are carried from level to level.  The specification  *)
(* starts from a level-3 round that has just begun, with the counters at   *)
(* any n up to ShopMaxPurchases (beyond the longest schedule) and with a   *)
(* purse that pays for no pipe or for two, and lets the player buy and     *)
(* place.                                                                  *)

ShopLevel == 3

ShopMaxPurchases == 17

ShopSpare == 5

\* the purses: too little for anything, or two pipes' worth and a bit
ShopCoins(n) ==
    { ShopSpare,
      PIPE_COST_SCHEDULE[Min(n, Len(PIPE_COST_SCHEDULE) - 1) + 1]
      + PIPE_COST_SCHEDULE[Min(n + 1, Len(PIPE_COST_SCHEDULE) - 1) + 1]
      + ShopSpare }

\* the round begun: the skill chosen and confirmed
ShopOpened ==
    handle_click(
        handle_click(SpiralGame(ShopLevel, 0, POWERUP_DELAY_MAX), 0,
                     SkillClick("coin_rain"), NoDrops),
        0, ButtonClick("confirm"), NoDrops)

ShopGame(n, coins) ==
    [ShopOpened EXCEPT
        !.coins = coins,
        !.pipe_purchases = n, !.pipe_counter = n,
        !.block_purchases = n, !.block_counter = n,
        !.turbo_purchases = n, !.turbo_counter = n]

InitShop ==
    /\ \E n \in 0..ShopMaxPurchases : \E coins \in ShopCoins(n) :
           game = ShopGame(n, coins)
    /\ now = 0
    /\ op = Op("init")
    /\ steps = <<>>
    /\ boosted = None
    /\ session = GameSession
    /\ paid = {}

ShopButtons ==
    { ButtonClick(b) : b \in {"pipe_button", "block_button", "turbo_button"} }

\* where the player puts what is pending
ShopSpots(g) ==
    IF g.placing_pipe # None THEN { FieldClick(0, <<4, 19>>) }
    ELSE IF g.placing_block # None
         THEN { FieldClick(NodeProgress(n), <<0, 0>>) : n \in {3, 12} }
    ELSE IF g.placing_turbo_pipe # None
         THEN { FieldClick(NodeProgress(n) + NodeStep \div 2, <<0, 0>>) :
                    n \in {20, 30} }
    ELSE {}

ShopBuy == \E c \in ShopButtons : Click(c, NoDrops)

ShopPlace == \E c \in ShopSpots(game) : Click(c, NoDrops)

NextShop == ShopBuy \/ ShopPlace

SpecShop == InitShop /\ [][NextShop]_vars

\* the purchase counted by counter went through in this step: price coins
\* were charged and the pending item records that price
Charged(counter, pending, price) ==
    /\ counter' = counter + 1
    /\ game'.coins = game.coins - price
    /\ pending' # None
    /\ pending'[1].cost = price

\* the price is on the schedule, no smaller than any price before it and no
\* larger than the next one; once the schedule is exhausted it is the
\* schedule's last and largest
Scheduled(schedule, n, price) ==
    /\ price = SchedulePrice(schedule, n)
    /\ \A m \in 0..n : SchedulePrice(schedule, m) <= price
    /\ price <= SchedulePrice(schedule, n + 1)
    /\ n >= Len(schedule) - 1
       => /\ price = schedule[Len(schedule)]
          /\ \A i \in 1..Len(schedule) : schedule[i] <= price

\* C6: the purchase that raises a purchase counter from n to n + 1 charges
\* schedule[min(n, len(schedule) - 1)] coins, for pipes, blocks and turbo
\* zones; beyond the schedule that is its last and largest price, and the
\* price never decreases as the counter grows.
C6_CostSchedule ==
    [][ /\ game'.pipe_purchases # game.pipe_purchases
           => \E price \in Range(PIPE_COST_SCHEDULE) :
                /\ Charged(game.pipe_purchases, game.placing_pipe, price)
                /\ Scheduled(PIPE_COST_SCHEDULE, game.pipe_purchases, price)
        /\ game'.block_purchases # game.block_purchases
           => \E price \in Range(BLOCK_COST_SCHEDULE) :
                /\ Charged(game.block_purchases, game.placing_block, price)
                /\ Scheduled(BLOCK_COST_SCHEDULE, game.block_purchases, price)
        /\ game'.turbo_purchases # game.turbo_purchases
           => \E price \in Range(TURBO_PIPE_COST_SCHEDULE) :
                /\ Charged(game.turbo_purchases, game.placing_turbo_pipe, price)
                /\ Scheduled(TURBO_PIPE_COST_SCHEDULE, game.turbo_purchases, price)
      ]_vars

\* the player has just bought a pipe, the one after the schedule's last
\* entry and not the first one bought at the last price
C6_Witness ==
    /\ op.name = "click"
    /\ op.c.target = "pipe_button"
    /\ game.pipe_purchases > Len(PIPE_COST_SCHEDULE) + 1
    /\ game.placing_pipe # None
    /\ game.placing_pipe[1].id = game.pipe_purchases
    /\ game.placing_pipe[1].cost = PIPE_COST_SCHEDULE[Len(PIPE_COST_SCHEDULE)]
    /\ game.coins = ShopSpare

---------------------------------------------------------------------------
(* SpecCarry: a level-3 game played with all three skills in frames of     *)
(* five seconds.  The player buys and places, always in the same order and *)
(* as soon as the coins allow: three turbo zones, which make the target of *)
(* 3000 points reachable, a pipe, a block and two portals.  Once the       *)
(* target is reached the player may move on to level 4.                    *)

CarryLevel == 3

CarryMaxTime == 60000

CarryFrameLength == 5000

CarryZones == 3

\* the nodes the turbo zones are put on, in the order of purchase
CarryZoneNode(k) == 20 + 6 * k

\* where the player puts what is pending
CarrySpots(g) ==
    IF g.placing_pipe # None
    THEN { FieldClick(0, <<4, 19>>), FieldClick(0, <<5, 18>>) }
    ELSE IF g.placing_block # None
         THEN { FieldClick(NodeProgress(n), <<0, 0>>) : n \in {3, 12} }
    ELSE IF g.placing_turbo_pipe # None
         THEN { FieldClick(NodeProgress(CarryZoneNode(Len(g.turbo_pipes)))
                           + NodeStep \div 2, <<0, 0>>) }
    ELSE IF g.placing_portal # None
         THEN { FieldClick(NodeProgress(n), <<0, 0>>) : n \in {2, 22} }
    ELSE {}

\* what the player buys next
CarryButtons(g) ==
    IF any_placing(g) THEN {}
    ELSE IF Len(g.turbo_pipes) < CarryZones THEN { ButtonClick("turbo_button") }
    ELSE IF g.pipes = <<>> THEN { ButtonClick("pipe_button") }
    ELSE IF g.blocks = <<>> THEN { ButtonClick("block_button") }
    ELSE IF Len(g.portals) < 2 THEN { ButtonClick("portal_button") }
    ELSE {}

InitCarry == Construct(CarryLevel, POWERUP_DELAY_MAX)

\* the player picks every skill on offer, and then confirms
CarrySkills ==
    /\ game.skill_selection_required
    /\ \E c \in { SkillClick(k) : k \in available_skill_keys(game) \ game.active_skills }
               \cup (IF game.active_skills = available_skill_keys(game)
                     THEN {ButtonClick("confirm")} ELSE {}) :
           Click(c, NoDrops)

\* a frame passes when there is nothing the player can buy or place
CarryFrame ==
    /\ now < CarryMaxTime
    /\ game.current_level = CarryLevel
    /\ \A c \in CarryButtons(game) \cup CarrySpots(game) :
           handle_click(game, now, c, NoDrops) = game
    /\ \E rnd \in BallsDraws : Frame(CarryFrameLength, rnd)

CarryBuild ==
    /\ now > 0
    /\ game.current_level = CarryLevel
    /\ \E c \in CarryButtons(game) \cup CarrySpots(game) : Click(c, NoDrops)

CarryAdvance == AdvanceLevel(POWERUP_DELAY_MIN)

NextCarry == CarrySkills \/ CarryFrame \/ CarryBuild \/ CarryAdvance

SpecCarry == InitCarry /\ [][NextCarry]_vars

\* the items of the list new are those of the list old, in the same order,
\* with the same ids
SameIds(old, new) ==
    /\ Len(new) = Len(old)
    /\ \A i \in 1..Len(old) : new[i].id = old[i].id

\* C9: reset_round(level, carry_items = true) to a higher level leaves every
\* placed pipe, block, turbo zone and portal with its id and its position on
\* the track; the blocks are active again, with timers that start at the
\* time of the call; score and coins are 0 and there are no balls.
C9_CarryForward ==
    [][ (op'.name = "advance" /\ op'.carry /\ op'.level > game.current_level)
        => /\ game'.current_level = op'.level
           /\ SameIds(game.pipes, game'.pipes)
           /\ \A i \in 1..Len(game.pipes) :
                /\ game'.pipes[i].entry_progress = game.pipes[i].entry_progress
                /\ game'.pipes[i].exit_progress = game.pipes[i].exit_progress
           /\ SameIds(game.blocks, game'.blocks)
           /\ \A i \in 1..Len(game.blocks) :
                /\ game'.blocks[i].progress = game.blocks[i].progress
                /\ game'.blocks[i].is_active
                /\ game'.blocks[i].spawn_ms = now
                /\ game'.blocks[i].active_until_ms
                     = now + game.blocks[i].active_duration
                /\ game'.blocks[i].cooldown_end_ms = 0
           /\ SameIds(game.turbo_pipes, game'.turbo_pipes)
           /\ \A i \in 1..Len(game.turbo_pipes) :
                /\ game'.turbo_pipes[i].start_progress
                     = game.turbo_pipes[i].start_progress
                /\ game'.turbo_pipes[i].end_progress
                     = game.turbo_pipes[i].end_progress
           /\ SameIds(game.portals, game'.portals)
           /\ \A i \in 1..Len(game.portals) :
                game'.portals[i].progress = game.portals[i].progress
           /\ game'.score = 0
           /\ game'.coins = 0
           /\ game'.balls = <<>>
      ]_vars

\* level 4 has just been entered from level 3 with a pipe, a block, three
\* turbo zones and two portals on the track; the block, placed long before,
\* is active since this instant
C9_Witness ==
    /\ op.name = "advance"
    /\ op.carry
    /\ game.current_level = CarryLevel + 1
    /\ Len(game.pipes) = 1
    /\ game.pipes[1].exit_progress > game.pipes[1].entry_progress
    /\ Len(game.blocks) = 1
    /\ game.blocks[1].progress > 0
    /\ game.blocks[1].is_active
    /\ game.blocks[1].spawn_ms = now
    /\ now >= 4 * CarryFrameLength
    /\ Len(game.turbo_pipes) = CarryZones
    /\ \A i \in 1..CarryZones :
           game.turbo_pipes[i].end_progress > game.turbo_pipes[i].start_progress
    /\ Len(game.portals) = 2
    /\ game.portals[1].progress # game.portals[2].progress
    /\ game.score = 0
    /\ game.coins = 0
    /\ game.balls = <<>>

---------------------------------------------------------------------------
(* The field: buying, placing and removing gadgets at a level that has     *)
(* them all.  The player picks rapid fire, lets long frames pass, in which *)
(* coins come in and power-ups are laid on node 30 and picked up by the    *)
(* balls, and then shops at one instant.  The spots clicked are the nodes  *)
(* 19 and 20, which face each other 16 px apart across a bend, so that a   *)
(* pipe dropped on either joins the nodes 19 and 20 at x = 590 and holds   *)
(* both spots in its rectangle, and node 10, where a pipe joins the nodes  *)
(* 10 and 14.                                                              *)

FieldLevel == 3

FieldBuildAt == 15000

\* the player pays for a gadget while the purse holds this much
FieldReserve == 50

FieldFrameLength == 5000

FieldPowerups ==
    { [ok |-> TRUE, kind |-> k, progress |-> NodeProgress(30)] :
        k \in {"storm", "bouncepad"} }

\* the draws of spawn_bouncer_drops: randint(BOUNCER_DROP_MIN,
\* BOUNCER_DROP_MAX) drops, each of a kind and at an offset
FieldDrops ==
    { [k \in 1..n |-> [kind |-> "storm", offset |-> 0]] :
        n \in {BOUNCER_DROP_MIN, BOUNCER_DROP_MAX} }

\* no pad lies on the track while the frames pass
FieldDraws == Draws({POWERUP_DELAY_MIN}, FieldPowerups, {0}, {NoDrops})

FieldSpots ==
    { FieldClick(NodeProgress(19), <<19, 20>>),
      FieldClick(NodeProgress(20), <<19, 20>>),
      FieldClick(NodeProgress(10), <<10, 14>>) }

FieldButtons ==
    { ButtonClick(b) : b \in {"pipe_button", "block_button", "turbo_button",
                              "portal_button", "storm_button",
                              "bouncepad_button"} }

InitField == Construct(FieldLevel, POWERUP_DELAY_MIN)

FieldSkills ==
    /\ now = 0
    /\ \E c \in {SkillClick("rapid_fire"), ButtonClick("confirm")} :
           Click(c, NoDrops)

FieldFrame ==
    /\ now < FieldBuildAt
    /\ game.round_start_ms # None
    /\ \E rnd \in FieldDraws : Frame(FieldFrameLength, rnd)

FieldBuy ==
    /\ now >= FieldBuildAt
    /\ \E c \in FieldButtons :
           /\ \/ game.coins >= FieldReserve
              \/ c.target \in {"storm_button", "bouncepad_button"}
           /\ Click(c, NoDrops)

FieldPlace ==
    /\ now >= FieldBuildAt
    /\ \E c \in FieldSpots, drops \in FieldDrops : Click(c, drops)

FieldRemove ==
    /\ now >= FieldBuildAt
    /\ \E c \in FieldSpots, drops \in FieldDrops : RightClick(c, drops)

NextField == FieldSkills \/ FieldFrame \/ FieldBuy \/ FieldPlace \/ FieldRemove

SpecField == InitField /\ [][NextField]_vars

---------------------------------------------------------------------------
(* Claims about the field, checked under SpecField.                        *)

\* the pending placements that are present
PendingSlots(g) ==
    { k \in {"pipe", "block", "turbo", "bouncer", "storm", "portal"} :
        CASE k = "pipe" -> g.placing_pipe # None
          [] k = "block" -> g.placing_block # None
          [] k = "turbo" -> g.placing_turbo_pipe # None
          [] k = "bouncer" -> g.placing_bouncer # None
          [] k = "storm" -> g.placing_storm # None
          [] k = "portal" -> g.placing_portal # None }

\* the buttons that buy a gadget or turn a charge into one
ShopTargets ==
    { "pipe_button", "block_button", "turbo_button", "portal_button",
      "storm_button", "bouncepad_button" }

\* the click would have bought the gadget had nothing been pending: the
\* gadget is on offer and the coins or the charge are there
Purchasable(g, target) ==
    CASE target = "pipe_button" -> g.coins >= next_pipe_cost(g)
      [] target = "block_button" -> blocks_enabled(g) /\ g.coins >= next_block_cost(g)
      [] target = "turbo_button" -> turbo_enabled(g) /\ g.coins >= next_turbo_cost(g)
      [] target = "portal_button" ->
            /\ portal_enabled(g) /\ g.coins >= next_portal_cost(g)
            /\ Len(g.portals) < 2
      [] target = "storm_button" -> storm_enabled(g) /\ g.storm_charges > 0
      [] target = "bouncepad_button" ->
            bouncer_enabled(g) /\ g.bouncepad_charges > 0
      [] OTHER -> FALSE

\* C11 (single pending placement): at most one of the six pending
\* placements is present, before and after every step, and a click on a
\* button that buys a gadget or turns a charge into one, made while a
\* placement is pending, changes nothing
C11_SinglePending ==
    [][ /\ Cardinality(PendingSlots(game)) <= 1
        /\ Cardinality(PendingSlots(game')) <= 1
        /\ ( /\ op'.name = "click"
             /\ op'.c.target \in ShopTargets
             /\ PendingSlots(game) # {} )
           => game' = game ]_vars

\* a portal is pending, and the last click was on the button of a block
\* that the coins would have paid for
C11_Witness ==
    /\ op.name = "click"
    /\ op.c.target = "block_button"
    /\ PendingSlots(game) = {"portal"}
    /\ Purchasable(game, "block_button")

\* the progress of every placed block, pad, emitter and portal
PointGadgets(g) ==
    [i \in 1..Len(g.blocks) |-> g.blocks[i].progress]
    \o [i \in 1..Len(g.bouncers) |-> g.bouncers[i].progress]
    \o [i \in 1..Len(g.storm_emitters) |-> g.storm_emitters[i].progress]
    \o [i \in 1..Len(g.portals) |-> g.portals[i].progress]

\* C12 (overlap prevention): the placed blocks, pads, emitters and portals
\* sit on track nodes, no two of them on the same one and none of them
\* within the span of a placed turbo zone, and no two placed turbo zones
\* overlap or touch
C12_NoOverlap ==
    LET pts == PointGadgets(game)
        zones == game.turbo_pipes
    IN  /\ \A i \in 1..Len(pts) : on_node(pts[i])
        /\ \A i, j \in 1..Len(pts) : i # j => pts[i] # pts[j]
        /\ \A i \in 1..Len(pts), k \in 1..Len(zones) :
               ~(zones[k].start_progress <= pts[i] /\ pts[i] <= zones[k].end_progress)
        /\ \A k, l \in 1..Len(zones) :
               k # l => \/ zones[k].end_progress < zones[l].start_progress
                        \/ zones[l].end_progress < zones[k].start_progress

\* a turbo zone and a block lie on the track, and the click that was to put
\* the pending emitter on the block's node, or inside the zone, left it
\* pending
C12_Witness ==
    /\ game.turbo_pipes # <<>>
    /\ game.blocks # <<>>
    /\ game.placing_storm # None
    /\ op.name = "click"
    /\ op.c.target = "field"
    /\ track_point_occupied(game, snap_progress_point(op.c.progress))

\* some placed block, pad, emitter or portal lies in the span, or some
\* placed turbo zone reaches into it
Taken(g, lo, hi) ==
    \/ \E i \in 1..Len(PointGadgets(g)) :
           lo <= PointGadgets(g)[i] /\ PointGadgets(g)[i] <= hi
    \/ \E k \in 1..Len(g.turbo_pipes) :
           /\ g.turbo_pipes[k].start_progress <= hi
           /\ g.turbo_pipes[k].end_progress >= lo

\* the click c would put the pending block, pad, emitter, portal or turbo
\* zone on a node or span that is taken
SnapsOntoTaken(g, c) ==
    IF PendingSlots(g) \cap {"block", "bouncer", "storm", "portal"} # {} THEN
        Taken(g, snap_progress_point(c.progress), snap_progress_point(c.progress))
    ELSE IF g.placing_turbo_pipe # None THEN
        LET nodes == snapped_turbo_span(
                         turbo_span(c.progress,
                                    g.placing_turbo_pipe[1].length_progress))
        IN  Taken(g, NodeProgress(nodes[1]), NodeProgress(nodes[2]))
    ELSE FALSE

\* a block is pending and the click is within reach of a placed block:
\* handle_click spends the pending block on upgrading that one
ClickUpgrades(g, c) ==
    /\ g.placing_block # None
    /\ \E i \in 1..Len(g.blocks) :
           within(c.progress, g.blocks[i].progress, BLOCK_RADIUS + 12, ClosePairs30)

\* a portal is pending while two portals cool down: place_portal takes the
\* click for an infusion, or for nothing
ClickInfuses(g, c) ==
    /\ g.placing_portal # None
    /\ g.portal_state = "cooldown"
    /\ Len(g.portals) >= 2

\* C13 as stated: a click that snaps the pending block, pad, emitter,
\* portal or turbo zone onto a taken node or span changes nothing (fails:
\* a pending block clicked onto a placed block upgrades it)
C13_RejectedAsStated ==
    [][ ( /\ op'.name = "click"
          /\ op'.c.target = "field"
          /\ SnapsOntoTaken(game, op'.c) )
        => game' = game ]_vars

\* C13 (rejected placement), amended: a click that snaps the pending pad,
\* emitter or turbo zone onto a taken node or span, or the pending block
\* onto a taken node out of reach of every placed block, or the pending
\* portal onto a taken node while the portals are not cooling down, changes
\* nothing: nothing is placed or refunded and the gadget stays pending
C13_Rejected ==
    [][ ( /\ op'.name = "click"
          /\ op'.c.target = "field"
          /\ SnapsOntoTaken(game, op'.c)
          /\ ~ClickUpgrades(game, op'.c)
          /\ ~ClickInfuses(game, op'.c) )
        => game' = game ]_vars

\* a block is pending after a click on a node that a portal holds and no
\* block is near
C13_Witness ==
    /\ op.name = "click"
    /\ op.c.target = "field"
    /\ game.placing_block # None
    /\ \E i \in 1..Len(game.portals) :
           game.portals[i].progress = snap_progress_point(op.c.progress)
    /\ SnapsOntoTaken(game, op.c)
    /\ ~ClickUpgrades(game, op.c)

\* ------------------------------------------------------------------
\* The pads: a round of level PadsLevel in which every power-up on the
\* track is a pad charge; from PadsBuildAt on the player buys pipes while
\* the purse holds PadsReserve, sets pads down, and removes gadgets
\* ------------------------------------------------------------------
PadsLevel == 3

PadsBuildAt == 25000

PadsReserve == 80

PadsFrameLength == 5000

PadsPowerups == { [ok |-> TRUE, kind |-> "bouncepad", progress |-> NodeProgress(30)] }

PadsDraws == Draws({POWERUP_DELAY_MIN}, PadsPowerups, {0}, {NoDrops})

InitPads == Construct(PadsLevel, POWERUP_DELAY_MIN)

PadsSkills ==
    /\ now = 0
    /\ \E c \in {SkillClick("rapid_fire"), ButtonClick("confirm")} :
           Click(c, NoDrops)

PadsFrame ==
    /\ now < PadsBuildAt
    /\ game.round_start_ms # None
    /\ \E rnd \in PadsDraws : Frame(PadsFrameLength, rnd)

PadsBuy ==
    /\ now >= PadsBuildAt
    /\ \/ game.coins >= PadsReserve /\ Click(ButtonClick("pipe_button"), NoDrops)
       \/ Click(ButtonClick("bouncepad_button"), NoDrops)

PadsPlace ==
    /\ now >= PadsBuildAt
    /\ \E c \in FieldSpots, drops \in FieldDrops : Click(c, drops)

PadsRemove ==
    /\ now >= PadsBuildAt
    /\ \E c \in FieldSpots, drops \in FieldDrops : RightClick(c, drops)

NextPads == PadsSkills \/ PadsFrame \/ PadsBuy \/ PadsPlace \/ PadsRemove

SpecPads == InitPads /\ [][NextPads]_vars

\* ------------------------------------------------------------------
\* The portals: a round of level PortalLevel and the frames after it, up
\* to PortalMaxTime; from PortalBuildAt on the player buys portals, clicks
\* on the track with them, and removes portals of a pair that has formed
\* ------------------------------------------------------------------
PortalLevel == 3

PortalBuildAt == 8000

PortalMaxTime == 80000

PortalFrameLength == 8000

\* the player buys this many portals at most
PortalMaxPurchases == 3

PortalDraws == Draws({POWERUP_DELAY_MAX}, {NoPowerup}, {0}, {NoDrops})

InitPortal == Construct(PortalLevel, POWERUP_DELAY_MAX)

PortalSkills ==
    /\ now = 0
    /\ \E c \in {SkillClick("rapid_fire"), ButtonClick("confirm")} :
           Click(c, NoDrops)

PortalFrame ==
    /\ now < PortalMaxTime
    /\ game.round_start_ms # None
    /\ \E rnd \in PortalDraws : Frame(PortalFrameLength, rnd)

PortalBuy ==
    /\ now >= PortalBuildAt
    /\ game.portal_purchases < PortalMaxPurchases
    /\ Click(ButtonClick("portal_button"), NoDrops)

PortalPlace ==
    /\ now >= PortalBuildAt
    /\ \E c \in FieldSpots : Click(c, NoDrops)

\* the player takes a portal off a pair that has formed
PortalRemove ==
    /\ now >= PortalBuildAt
    /\ game.portal_state # "inactive"
    /\ \E c \in FieldSpots : RightClick(c, NoDrops)

NextPortal == PortalSkills \/ PortalFrame \/ PortalBuy \/ PortalPlace \/ PortalRemove

SpecPortal == InitPortal /\ [][NextPortal]_vars

\* ------------------------------------------------------------------
\* Pipes taken away under the balls: a round of level TransitLevel; at the
\* first frame boundary at or after TransitBuildAt the player buys pipes
\* and places them from node 4 to node 19 and from node 25 to node 30;
\* the frames are then one second long, a ball that enters a pipe in one
\* frame leaves it in the next, and between the frames the player removes
\* pipes
\* ------------------------------------------------------------------
TransitLevel == 3

TransitBuildAt == 15000

TransitMaxTime == 20000

TransitSpans == { <<4, 19>>, <<25, 30>> }

TransitDraws == Draws({POWERUP_DELAY_MAX}, {NoPowerup}, {0}, {NoDrops})

InitTransit == Construct(TransitLevel, POWERUP_DELAY_MAX)

TransitSkills ==
    /\ now = 0
    /\ \E c \in {SkillClick("coin_rain"), ButtonClick("confirm")} :
           Click(c, NoDrops)

TransitFrame ==
    /\ now < BuildTime(TransitBuildAt) + (TransitMaxTime - TransitBuildAt)
    /\ game.round_start_ms # None
    /\ \E rnd \in TransitDraws :
           Frame(IF now < TransitBuildAt THEN 5000 ELSE 1000, rnd)

TransitBuild ==
    /\ now = BuildTime(TransitBuildAt)
    /\ \/ Click(ButtonClick("pipe_button"), NoDrops)
       \/ /\ game.placing_pipe # None
          /\ \E span \in TransitSpans : Click(FieldClick(0, span), NoDrops)

\* a secondary click on a pipe that is placed
TransitRemove ==
    /\ now >= BuildTime(TransitBuildAt)
    /\ \E span \in TransitSpans :
           /\ \E i \in 1..Len(game.pipes) :
                  /\ game.pipes[i].entry_progress = NodeProgress(span[1])
                  /\ game.pipes[i].exit_progress = NodeProgress(span[2])
           /\ RightClick(FieldClick(0, span), NoDrops)

NextTransit == TransitSkills \/ TransitFrame \/ TransitBuild \/ TransitRemove

SpecTransit == InitTransit /\ [][NextTransit]_vars

\* ------------------------------------------------------------------
\* The score: a round of level ScoreLevel, with super eggs or without, and
\* the frames up to ScoreMaxTime, past the end of the round; the frames
\* are ScoreFrameLength long up to ScoreFineFrom and a second long from
\* then on, so that balls are on the track when the round ends; at
\* ScoreBuildAt the player buys blocks and places them on the nodes 10
\* and 20
\* ------------------------------------------------------------------
ScoreLevel == 2

ScoreBuildAt == 20000

ScoreMaxTime == 65000

ScoreFrameLength == 5000

ScoreFineFrom == 55000

ScoreDraws == Draws({POWERUP_DELAY_MAX}, {NoPowerup}, {0}, {NoDrops})

ScoreSpots == { FieldClick(NodeProgress(n), <<0, 0>>) : n \in {10, 20} }

InitScore == Construct(ScoreLevel, POWERUP_DELAY_MAX)

ScoreSkills ==
    /\ now = 0
    /\ \E c \in {SkillClick("super_egg"), ButtonClick("confirm")} :
           Click(c, NoDrops)

ScoreFrame ==
    /\ now < ScoreMaxTime
    /\ game.round_start_ms # None
    /\ \E rnd \in ScoreDraws :
           Frame(IF now < ScoreFineFrom THEN ScoreFrameLength ELSE 1000, rnd)

ScoreBuild ==
    /\ now = ScoreBuildAt
    /\ \E c \in {ButtonClick("block_button")} \cup ScoreSpots : Click(c, NoDrops)

NextScore == ScoreSkills \/ ScoreFrame \/ ScoreBuild

SpecScore == InitScore /\ [][NextScore]_vars

\* ------------------------------------------------------------------
\* Waiting for the skills: the player of SpecCarry, who builds a layout
\* and carries it to the next level; while a skill selection is pending,
\* before and after, frames pass and the player clicks and right-clicks
\* on the skills, on confirm, on every button and on the gadgets
\* ------------------------------------------------------------------
WaitingFrames == {1000, 2000}

WaitingSpots ==
    { FieldClick(0, <<4, 19>>),
      FieldClick(NodeProgress(3), <<3, 4>>),
      FieldClick(NodeProgress(22), <<22, 33>>) }

WaitingClicks ==
    { SkillClick(k) : k \in SKILL_INFO }
    \cup { ButtonClick(b) : b \in {"confirm", "pipe_button", "block_button",
                                   "turbo_button", "portal_button", "storm_button",
                                   "speed_boost_button", "bouncepad_button"} }
    \cup WaitingSpots

\* the round of SpecCarry, played with every skill on offer
WaitingRound ==
    /\ game.active_skills = available_skill_keys(game)
    /\ CarryFrame \/ CarryBuild

WaitingAdvance == CarryAdvance

WaitingClick ==
    /\ game.skill_selection_required
    /\ \E c \in WaitingClicks : Click(c, NoDrops)

WaitingRightClick ==
    /\ game.skill_selection_required
    /\ \E c \in WaitingSpots : RightClick(c, NoDrops)

\* a frame while the selection is pending, one between two frames of the
\* rounds
WaitingIdle ==
    /\ game.skill_selection_required
    /\ now % CarryFrameLength = 0
    /\ \E dt \in WaitingFrames, rnd \in BallsDraws : Frame(dt, rnd)

NextWaiting ==
    WaitingRound \/ WaitingAdvance \/ WaitingClick \/ WaitingRightClick
    \/ WaitingIdle

SpecWaiting == InitCarry /\ [][NextWaiting]_vars

\* ------------------------------------------------------------------
\* The ids: a session begun at level IdsLevel and played up to IdsMaxTime
\* by the player of SpecCarry, who also spends every pad and storm charge,
\* buys IdsMaxPurchases blocks, removes a gadget of a kind of which every
\* one bought is still on the field, retries the level once something has
\* been bought, and presses Enter when the round is over
\* ------------------------------------------------------------------
IdsLevel == 3

IdsMaxTime == 60000

IdsMaxPurchases == 2

IdsFrameLength == 5000

\* the instants at which the player removes gadgets, and retries
IdsRemoveAt == 20000

IdsRetryAt == 30000

\* the placed gadgets of a kind
Placed(g, kind) ==
    CASE kind = "pipe" -> g.pipes
      [] kind = "block" -> g.blocks
      [] kind = "turbo" -> g.turbo_pipes
      [] kind = "bouncer" -> g.bouncers
      [] kind = "storm" -> g.storm_emitters
      [] kind = "portal" -> g.portals

\* the gadget counter of a kind
Counter(g, kind) ==
    CASE kind = "pipe" -> g.pipe_counter
      [] kind = "block" -> g.block_counter
      [] kind = "turbo" -> g.turbo_counter
      [] kind = "bouncer" -> g.bouncer_counter
      [] kind = "storm" -> g.storm_counter
      [] kind = "portal" -> g.portal_counter

\* the power-ups that reach the track are storm and pad charges in turn
IdsDraws(g) ==
    Draws({POWERUP_DELAY_MIN},
          { [ok |-> TRUE,
             kind |-> IF g.powerup_counter % 2 = 0 THEN "storm" ELSE "bouncepad",
             progress |-> NodeProgress(30)] },
          {0}, {NoDrops})

\* what the player buys next
IdsButtons(g) ==
    IF any_placing(g) THEN {}
    ELSE IF g.storm_charges > 0 THEN { ButtonClick("storm_button") }
    ELSE IF g.bouncepad_charges > 0 THEN { ButtonClick("bouncepad_button") }
    ELSE IF Len(g.turbo_pipes) >= CarryZones /\ g.pipes # <<>>
            /\ g.block_counter < IdsMaxPurchases
    THEN { ButtonClick("block_button") }
    ELSE CarryButtons(g)

\* where the player puts what is pending: an emitter on node 8, a pad on
\* node 15, the rest as in SpecCarry
IdsSpots(g) ==
    IF g.placing_storm # None
    THEN { FieldClick(NodeProgress(8), <<8, 9>>) }
    ELSE IF g.placing_bouncer # None
    THEN { FieldClick(NodeProgress(15), <<8, 15>>) }
    ELSE CarrySpots(g)

\* where the player right-clicks: on the pipe, a block or an emitter
IdsRemovals(g) ==
    { c \in { FieldClick(0, <<4, 19>>),
              FieldClick(NodeProgress(3), <<3, 4>>),
              FieldClick(NodeProgress(8), <<8, 9>>) } :
        try_remove_item_at(g, 0, c, NoDrops).kind # "none" }

InitIds == Construct(IdsLevel, POWERUP_DELAY_MIN)

IdsSkills == CarrySkills

IdsFrame ==
    /\ now < IdsMaxTime
    /\ game.round_start_ms # None
    /\ \A c \in IdsButtons(game) \cup IdsSpots(game) :
           handle_click(game, now, c, NoDrops) = game
    /\ \E rnd \in IdsDraws(game) : Frame(IdsFrameLength, rnd)

IdsBuild ==
    /\ game.round_start_ms # None
    /\ \E c \in IdsButtons(game) \cup IdsSpots(game) : Click(c, NoDrops)

IdsRemove ==
    /\ game.round_start_ms # None
    /\ now = IdsRemoveAt
    /\ \E c \in IdsRemovals(game) :
           /\ LET kind == try_remove_item_at(game, now, c, NoDrops).kind
              IN  Counter(game, kind) = Len(Placed(game, kind))
           /\ RightClick(c, NoDrops)

IdsRetry ==
    /\ now = IdsRetryAt
    /\ \E kind \in {"pipe", "block", "turbo", "bouncer", "storm", "portal"} :
           Counter(game, kind) > 0
    /\ Command("retry", POWERUP_DELAY_MIN)

IdsAdvance == ~game.round_active /\ KeyDown("return", POWERUP_DELAY_MIN)

NextIds ==
    IdsSkills \/ IdsFrame \/ IdsBuild \/ IdsRemove \/ IdsRetry \/ IdsAdvance

SpecIds == InitIds /\ [][NextIds]_vars

\* ------------------------------------------------------------------
\* The levels: sessions begun at the levels of LevelsStart and played up
\* to LevelsMaxTime in frames of LevelsFrameLength.  The player takes
\* every skill, buys a pipe and then up to LevelsZones turbo zones as soon
\* as the coins allow, and presses Enter, the wrapper's "next", or R at
\* any time
\* ------------------------------------------------------------------
LevelsStart == {2, 3}

LevelsMaxTime == 180000

LevelsFrameLength == 5000

LevelsZones == 6

\* the nodes the turbo zones are put on, in the order of purchase
LevelsZoneNode(k) == 20 + 3 * k

LevelsDraws == Draws({POWERUP_DELAY_MAX}, {NoPowerup}, {0}, {NoDrops})

LevelsButtons(g) ==
    IF any_placing(g) THEN {}
    ELSE IF g.pipes = <<>> THEN { ButtonClick("pipe_button") }
    ELSE IF Len(g.turbo_pipes) < LevelsZones THEN { ButtonClick("turbo_button") }
    ELSE {}

LevelsSpots(g) ==
    IF g.placing_pipe # None
    THEN { FieldClick(0, <<4, 19>>) }
    ELSE IF g.placing_turbo_pipe # None
    THEN { FieldClick(NodeProgress(LevelsZoneNode(Len(g.turbo_pipes)))
                      + NodeStep \div 2, <<0, 0>>) }
    ELSE {}

InitLevels == \E l \in LevelsStart : Construct(l, POWERUP_DELAY_MAX)

LevelsSkills == CarrySkills

\* a frame passes when there is nothing the player can buy or place and
\* the round is not yet won
LevelsFrame ==
    /\ now < LevelsMaxTime
    /\ game.round_start_ms # None
    /\ game.round_result # "success"
    /\ \A c \in LevelsButtons(game) \cup LevelsSpots(game) :
           handle_click(game, now, c, NoDrops) = game
    /\ \E rnd \in LevelsDraws : Frame(LevelsFrameLength, rnd)

LevelsBuild ==
    /\ game.round_start_ms # None
    /\ \E c \in LevelsButtons(game) \cup LevelsSpots(game) : Click(c, NoDrops)

LevelsKey == \E key \in {"return", "r"} : KeyDown(key, POWERUP_DELAY_MAX)

LevelsCommand == Command("next", POWERUP_DELAY_MAX)

NextLevels == LevelsSkills \/ LevelsFrame \/ LevelsBuild \/ LevelsKey \/ LevelsCommand

SpecLevels == InitLevels /\ [][NextLevels]_vars

\* ------------------------------------------------------------------
\* The speed boost: rounds at the levels of BoostLevels played up to
\* BoostMaxTime in frames of BoostFrameLength.  Speed-boost power-ups reach
\* the track wherever the level allows them; the player clicks the boost
\* button at any time and may retry the level while a boost is active
\* ------------------------------------------------------------------
BoostLevels == {1, 2}

BoostMaxTime == 70000

BoostFrameLength == 5000

BoostDraws(g) ==
    Draws({POWERUP_DELAY_MIN},
          { IF "speed_boost" \in collectible_powerup_types(g)
            THEN BallsPowerup ELSE NoPowerup },
          {0}, {NoDrops})

InitBoost == \E l \in BoostLevels : Construct(l, POWERUP_DELAY_MIN)

BoostSkills == CarrySkills

BoostFrame ==
    /\ now < BoostMaxTime
    /\ \E rnd \in BoostDraws(game) : Frame(BoostFrameLength, rnd)

BoostClick == Click(ButtonClick("speed_boost_button"), NoDrops)

BoostRetry ==
    /\ speed_boost_active(game, now)
    /\ Command("retry", POWERUP_DELAY_MIN)

NextBoost == BoostSkills \/ BoostFrame \/ BoostClick \/ BoostRetry

SpecBoost == InitBoost /\ [][NextBoost]_vars

\* ------------------------------------------------------------------
\* The spawn cadence: rounds at the levels of SpawnLevels with every skill
\* of the level; short frames of uneven length for the first SpawnFineFor
\* ms, long frames up to the end of the round, short frames again up to
\* SpawnMaxTime
\* ------------------------------------------------------------------
SpawnLevels == {1, 3}

SpawnFineFor == 1500

SpawnMaxTime == 62600

SpawnShortFrames == {100, 400, 700}

SpawnLongFrame == 30000

SpawnDraws == Draws({POWERUP_DELAY_MAX}, {NoPowerup}, {0}, {NoDrops})

InitSpawn == \E l \in SpawnLevels : Construct(l, POWERUP_DELAY_MAX)

SpawnSkills == CarrySkills

SpawnShort ==
    /\ now < SpawnFineFor \/ now >= 2 * SpawnLongFrame
    /\ \E dt \in SpawnShortFrames, rnd \in SpawnDraws :
           now + dt <= SpawnMaxTime /\ Frame(dt, rnd)

SpawnLong ==
    /\ now >= SpawnFineFor
    /\ now < 2 * SpawnLongFrame
    /\ \E rnd \in SpawnDraws : Frame(SpawnLongFrame, rnd)

NextSpawn == SpawnSkills \/ SpawnShort \/ SpawnLong

SpecSpawn == InitSpawn /\ [][NextSpawn]_vars

\* ------------------------------------------------------------------
\* The crossings: a round of level CrossLevel played in frames of
\* CrossFrameLength up to CrossMaxTime.  Storm power-ups reach the track on
\* node 19.  The player buys as soon as the coins or charges allow: a
\* portal for node 10 and one for node 20, an emitter for node 16 or 18
\* whenever a charge is in hand, a block for node 12, 19 or 24, a turbo zone
\* from node 22, and a pipe from node 25 to node 30
\* ------------------------------------------------------------------
CrossLevel == 3

CrossMaxTime == 48000

CrossFrameLength == 1000

CrossEmitters == 2

CrossDraws ==
    Draws({POWERUP_DELAY_MIN},
          { [ok |-> TRUE, kind |-> "storm", progress |-> NodeProgress(19)] },
          {0}, {NoDrops})

CrossButtons(g) ==
    IF any_placing(g) THEN {}
    ELSE IF g.portal_purchases < 2 THEN { ButtonClick("portal_button") }
    ELSE IF g.storm_charges > 0 /\ g.storm_counter < CrossEmitters
    THEN { ButtonClick("storm_button") }
    ELSE IF g.block_purchases < 1 THEN { ButtonClick("block_button") }
    ELSE IF g.turbo_purchases < 1 THEN { ButtonClick("turbo_button") }
    ELSE IF g.pipe_purchases < 1 THEN { ButtonClick("pipe_button") }
    ELSE {}

CrossSpots(g) ==
    IF g.placing_portal # None
    THEN { FieldClick(NodeProgress(IF g.portals = <<>> THEN 10 ELSE 20), <<0, 0>>) }
    ELSE IF g.placing_storm # None
    THEN { FieldClick(NodeProgress(n), <<0, 0>>) : n \in {16, 18} }
    ELSE IF g.placing_block # None
    THEN { FieldClick(NodeProgress(n), <<0, 0>>) : n \in {12, 19, 24} }
    ELSE IF g.placing_turbo_pipe # None
    THEN { FieldClick(NodeProgress(22) + NodeStep \div 2, <<0, 0>>) }
    ELSE IF g.placing_pipe # None
    THEN { FieldClick(0, <<25, 30>>) }
    ELSE {}

InitCross == Construct(CrossLevel, POWERUP_DELAY_MIN)

CrossSkills == CarrySkills

\* a frame passes when there is nothing the player can buy or place
CrossFrame ==
    /\ now < CrossMaxTime
    /\ game.round_start_ms # None
    /\ \A c \in CrossButtons(game) \cup CrossSpots(game) :
           handle_click(game, now, c, NoDrops) = game
    /\ \E rnd \in CrossDraws : Frame(CrossFrameLength, rnd)

CrossBuild ==
    /\ game.round_start_ms # None
    /\ \E c \in CrossButtons(game) \cup CrossSpots(game) : Click(c, NoDrops)

NextCross == CrossSkills \/ CrossFrame \/ CrossBuild

SpecCross == InitCross /\ [][NextCross]_vars

\* ------------------------------------------------------------------
\* The end of the track: a round of level FinishLevel in frames of 5 s, and
\* of FinishFrameLength from the build on, up to FinishMaxTime.  At
\* FinishBuildAt the player buys one pipe and places it from node 32 to
\* the last node, or from node 34 to node 36, an entry that a ball at full
\* speed passes together with the end of the track in one frame
\* ------------------------------------------------------------------
FinishLevel == 3

FinishBuildAt == 15000

FinishMaxTime == 24000

FinishFrameLength == 1000

FinishSpans == { <<32, TRACK_NODE_COUNT - 1>>, <<34, 36>> }

FinishDraws == Draws({POWERUP_DELAY_MAX}, {NoPowerup}, {0}, {NoDrops})

InitFinish == Construct(FinishLevel, POWERUP_DELAY_MAX)

FinishSkills ==
    /\ now = 0
    /\ \E c \in {SkillClick("coin_rain"), ButtonClick("confirm")} :
           Click(c, NoDrops)

FinishFrame ==
    /\ now < BuildTime(FinishBuildAt) + (FinishMaxTime - FinishBuildAt)
    /\ game.round_start_ms # None
    /\ \E rnd \in FinishDraws :
           Frame(IF now < FinishBuildAt THEN 5000 ELSE FinishFrameLength, rnd)

FinishBuild ==
    /\ now = BuildTime(FinishBuildAt)
    /\ \/ Click(ButtonClick("pipe_button"), NoDrops)
       \/ /\ game.placing_pipe # None
          /\ \E span \in FinishSpans : Click(FieldClick(0, span), NoDrops)

NextFinish == FinishSkills \/ FinishFrame \/ FinishBuild

SpecFinish == InitFinish /\ [][NextFinish]_vars

\* ------------------------------------------------------------------
\* The phases of the blocks: a round of level PhasesLevel that has just
\* begun, with a purse of PhasesCoins (the level's target is twice that),
\* in frames of PhasesFrameLength up to PhasesMaxTime.  The player buys up
\* to PhasesMaxPurchases blocks, at the times PhasesBuyAt: the first is
\* placed on node PhasesNode, the second two nodes on, and every further
\* one is clicked on the first and upgrades it
\* ------------------------------------------------------------------
PhasesLevel == 4

PhasesCoins == 10000

PhasesMaxTime == 45000

PhasesMaxPurchases == 18

PhasesFrameLength == 1500

PhasesBuyAt == {0, 9000}

PhasesNode == 36

PhasesDraws == Draws({POWERUP_DELAY_MAX}, {NoPowerup}, {0}, {NoDrops})

\* the round begun: the skill chosen and confirmed
PhasesOpened ==
    handle_click(
        handle_click(SpiralGame(PhasesLevel, 0, POWERUP_DELAY_MAX), 0,
                     SkillClick("coin_rain"), NoDrops),
        0, ButtonClick("confirm"), NoDrops)

InitPhases ==
    /\ game = [PhasesOpened EXCEPT !.coins = PhasesCoins]
    /\ now = 0
    /\ op = Op("init")
    /\ steps = <<>>
    /\ boosted = None
    /\ session = GameSession
    /\ paid = {}

PhasesFrame ==
    /\ game.placing_block = None
    /\ now + PhasesFrameLength <= PhasesMaxTime
    /\ \E rnd \in PhasesDraws : Frame(PhasesFrameLength, rnd)

PhasesBuy ==
    /\ now \in PhasesBuyAt
    /\ game.placing_block = None
    /\ game.block_counter < PhasesMaxPurchases
    /\ Click(ButtonClick("block_button"), NoDrops)

PhasesPlace ==
    /\ game.placing_block # None
    /\ Click(FieldClick(NodeProgress(IF Len(game.blocks) = 1
                                      THEN PhasesNode + 2 ELSE PhasesNode),
                        <<0, 0>>), NoDrops)

NextPhases == PhasesFrame \/ PhasesBuy \/ PhasesPlace

SpecPhases == InitPhases /\ [][NextPhases]_vars

\* ------------------------------------------------------------------
\* The storms: a round of level StormLevel in frames of StormFrameLength
\* up to StormMaxTime, past the end of the round.  The player builds as in
\* SpecLevels, a pipe from node 4 to node 19 and turbo zones behind it, as
\* soon as the coins allow.  Storm power-ups reach the track on node 1; at
\* the times StormPlaceAt the player may spend a charge on an emitter for
\* one of the nodes StormNodes, before the pipe or beside it, and every
\* reward is drawn low, middling or high
\* ------------------------------------------------------------------
StormLevel == 3

StormMaxTime == 66000

StormFrameLength == 1000

StormNodes == {2, 10}

StormPlaceAt == {12000, 22000, 57000}

StormDraws ==
    Draws({POWERUP_DELAY_MIN},
          { [ok |-> TRUE, kind |-> "storm", progress |-> NodeProgress(1)] },
          0..RollMax, {NoDrops})

InitStorm == Construct(StormLevel, POWERUP_DELAY_MIN)

StormSkills == CarrySkills

\* a frame passes when there is nothing the player can buy or place
StormFrame ==
    /\ now < StormMaxTime
    /\ game.round_start_ms # None
    /\ game.placing_storm = None
    /\ \A c \in LevelsButtons(game) \cup LevelsSpots(game) :
           handle_click(game, now, c, NoDrops) = game
    /\ \E rnd \in StormDraws : Frame(StormFrameLength, rnd)

StormBuild ==
    /\ game.round_start_ms # None
    /\ game.placing_storm = None
    /\ \E c \in LevelsButtons(game) \cup LevelsSpots(game) : Click(c, NoDrops)

StormPlace ==
    /\ now \in StormPlaceAt
    /\ game.round_start_ms # None
    /\ \/ /\ ~any_placing(game)
          /\ game.storm_emitters = <<>>
          /\ Click(ButtonClick("storm_button"), NoDrops)
       \/ /\ game.placing_storm # None
          /\ \E n \in StormNodes :
                 Click(FieldClick(NodeProgress(n), <<0, 0>>), NoDrops)

NextStorm == StormSkills \/ StormFrame \/ StormBuild \/ StormPlace

SpecStorm == InitStorm /\ [][NextStorm]_vars

\* ------------------------------------------------------------------
\* The session of app.py: the worker thread runs _loop, SessionHandlers
\* threads of the web server serve up to SessionMaxRequests requests each,
\* and every statement of theirs that matters is a step of its own, so
\* that the threads interleave wherever the lock lets them.  pc holds the
\* statement a thread is about to execute, or is executing.  The game is
\* a session of level 1; clock.tick finds SessionFrameLength gone by, up
\* to SessionMaxTime
\* ------------------------------------------------------------------
SessionFrameLength == 5000

SessionMaxTime == 10000

SessionMaxRequests == 2

SessionDraw ==
    [delay |-> POWERUP_DELAY_MAX, pu |-> NoPowerup, roll |-> 0, drops |-> NoDrops]

\* the requests that reach a handler: the first one serves the refresh and
\* the clicks on the canvas, the second one the buttons beside it
SessionRequests(h) ==
    IF h = 1
    THEN { [kind |-> "get_frame", c |-> NoClick],
           [kind |-> "click", c |-> SkillClick("coin_rain")],
           [kind |-> "click", c |-> ButtonClick("confirm")] }
    ELSE { [kind |-> "toggle_pause", c |-> NoClick],
           [kind |-> "right_click", c |-> FieldClick(NodeProgress(10), <<0, 0>>)],
           [kind |-> "command", c |-> [NoClick EXCEPT !.key = "retry"]] }

\* what _render_locked draws and _status_text writes
FrameOf(g, t, paused) ==
    [ level |-> g.current_level, score |-> g.score, coins |-> g.coins,
      balls |-> Len(g.balls), remaining |-> remaining_time_value(g, t),
      round_active |-> g.round_active, result |-> g.round_result,
      selecting |-> g.skill_selection_required, paused |-> paused ]

InitSession == Construct(1, POWERUP_DELAY_MAX)

\* dt = self.game.clock.tick(HEADLESS_FPS) / 1000.0; pygame.event.pump()
loop_tick ==
    /\ session.pc[Worker] = "tick"
    /\ now + SessionFrameLength <= SessionMaxTime
    /\ now' = now + SessionFrameLength
    /\ session' = [session EXCEPT !.pc[Worker] = "acquire"]
    /\ UNCHANGED <<game, op, steps, boosted, paid>>

\* the statement a thread reaches when it has the lock
entered(p) ==
    IF p = Worker THEN "update"
    ELSE CASE session.request[p].kind = "get_frame" ->
                  IF session.last_frame = None THEN "render" ELSE "copy"
           [] session.request[p].kind = "toggle_pause" -> "toggle"
           [] OTHER -> "call"

\* with self.lock, taken without waiting for the lock to be free
acquire_unheld(p) ==
    /\ session.pc[p] = "acquire"
    /\ session' = [session EXCEPT !.lock = Some(p), !.pc[p] = entered(p)]
    /\ UNCHANGED <<game, now, op, steps, boosted, paid>>

\* with self.lock: the thread goes on when the lock is free, and holds it
acquire(p) ==
    /\ session.pc[p] = "acquire"
    /\ session.lock = None
    /\ session' = [session EXCEPT !.lock = Some(p), !.pc[p] = entered(p)]
    /\ UNCHANGED <<game, now, op, steps, boosted, paid>>

\* if not self.paused: self.game.update(dt)
loop_update ==
    /\ session.pc[Worker] = "update"
    /\ LET u == IF session.paused THEN [g |-> game, steps |-> <<>>]
                ELSE update(game, now, SessionFrameLength, SessionDraw)
       IN  /\ game' = u.g
           /\ steps' = u.steps
    /\ op' = [Op("update") EXCEPT !.dt = SessionFrameLength]
    /\ session' = [session EXCEPT !.pc[Worker] = "render"]
    /\ UNCHANGED <<now, boosted>>
    /\ paid' = StormPaid(paid, game, game')

\* self.last_frame, self.last_status = self._render_locked()
render_locked(p) ==
    /\ session.pc[p] = "render"
    /\ game' = remaining_time(game, now)
    /\ op' = Op("render")
    /\ session' = [session EXCEPT
           !.last_frame = Some(FrameOf(game', now, session.paused)),
           !.pc[p] = IF p # Worker /\ session.request[p].kind = "get_frame"
                     THEN "copy" ELSE "release"]
    /\ UNCHANGED <<now, steps, boosted>>
    /\ paid' = StormPaid(paid, game, game')

\* the end of the with block
release(p) ==
    /\ session.pc[p] = "release"
    /\ session' = [session EXCEPT !.lock = None,
                                  !.pc[p] = IF p = Worker THEN "tick" ELSE "idle"]
    /\ UNCHANGED <<game, now, op, steps, boosted, paid>>

\* a request reaches the handler h
request(h) ==
    /\ session.pc[h] = "idle"
    /\ session.served[h] < SessionMaxRequests
    /\ \E r \in SessionRequests(h) :
           session' = [session EXCEPT
               !.request[h] = r,
               !.served[h] = @ + 1,
               !.pc[h] = IF r.kind \in {"click", "right_click"}
                         THEN "set_pos" ELSE "acquire"]
    /\ UNCHANGED <<game, now, op, steps, boosted, paid>>

\* click: pygame.mouse.set_pos(pos)
set_pos(h) ==
    /\ session.pc[h] = "set_pos"
    /\ session' = [session EXCEPT !.mouse_pos = session.request[h].c,
                                  !.pc[h] = "acquire"]
    /\ UNCHANGED <<game, now, op, steps, boosted, paid>>

\* toggle_pause: self.paused = not self.paused
toggle_pause(h) ==
    /\ session.pc[h] = "toggle"
    /\ session' = [session EXCEPT !.paused = ~@, !.pc[h] = "render"]
    /\ UNCHANGED <<game, now, op, steps, boosted, paid>>

\* click and command: the call of handle_click, handle_right_click or
\* reset_round
call(h) ==
    /\ session.pc[h] = "call"
    /\ LET r == session.request[h] IN
       /\ game' =
             CASE r.kind = "click" -> handle_click(game, now, r.c, NoDrops)
               [] r.kind = "right_click" ->
                      handle_right_click(game, now, r.c, NoDrops)
               [] r.c.key = "retry" ->
                      reset_round(game, game.current_level, FALSE, now,
                                  POWERUP_DELAY_MAX)
               [] r.c.key = "next" /\ game.round_result = "success" ->
                      reset_round(game, next_level(game), carry_layout(game),
                                  now, POWERUP_DELAY_MAX)
               [] r.c.key = "reset" ->
                      reset_round(game, 1, FALSE, now, POWERUP_DELAY_MAX)
               [] OTHER -> game
       /\ op' = [Op(r.kind) EXCEPT !.c = r.c]
    /\ steps' = <<>>
    /\ session' = [session EXCEPT !.pc[h] = "render"]
    /\ UNCHANGED <<now, boosted>>
    /\ paid' = StormPaid(paid, game, game')

\* get_frame: return self.last_frame.copy(), self.last_status
copy_frame(h) ==
    /\ session.pc[h] = "copy"
    /\ session' = [session EXCEPT !.returned[h] = session.last_frame,
                                  !.pc[h] = "release"]
    /\ UNCHANGED <<game, now, op, steps, boosted, paid>>

SessionLoop ==
    loop_tick \/ acquire(Worker) \/ loop_update \/ render_locked(Worker)
    \/ release(Worker)

SessionHandler ==
    \E h \in Handlers :
        request(h) \/ set_pos(h) \/ acquire(h) \/ toggle_pause(h) \/ call(h)
        \/ render_locked(h) \/ copy_frame(h) \/ release(h)

NextSession == SessionLoop \/ SessionHandler

SpecSession == InitSession /\ [][NextSession]_vars

\* ------------------------------------------------------------------
\* The cap: a round of level CapLevel in frames of CapFrameLength up to
\* CapMaxTime.  The player lays a pipe from node 4 to node 19 at once, so
\* that the power-ups which land on the nodes CapShelter are passed by no
\* ball; the first power-up is a pad charge in the open.  With the charge
\* in hand, POWERUP_MAX_ACTIVE power-ups on the track and the next timed
\* spawn held back, the player sets a pad under the pipe and then buys,
\* places and removes blocks until the pad drops its supply
\* ------------------------------------------------------------------
CapLevel == 3

CapMaxTime == 45000

CapFrameLength == 1000

\* the nodes of the pad charge, of the pad and of the block
CapNodes == [open |-> 30, pad |-> 12, block |-> 28]

CapShelter == {11, 13, 15, 17}

\* the nodes of CapShelter on which nothing lies
CapFree(g) ==
    { n \in CapShelter :
        \A i \in 1..Len(g.track_powerups) :
            g.track_powerups[i].progress # NodeProgress(n) }

CapPowerups(g) ==
    IF g.bouncepad_charges = 0 /\ g.bouncer_counter = 0
    THEN { [ok |-> TRUE, kind |-> "bouncepad", progress |-> NodeProgress(CapNodes.open)] }
    ELSE { [ok |-> TRUE, kind |-> k,
            progress |-> NodeProgress(CHOOSE n \in CapFree(g) :
                                        \A m \in CapFree(g) : n <= m)] :
             k \in {"storm", "speed_boost"} }

CapDraws(g) == Draws({POWERUP_DELAY_MIN}, CapPowerups(g), {0}, {NoDrops})

CapDrops ==
    { [k \in 1..n |-> [kind |-> "storm", offset |-> 0]] :
        n \in {BOUNCER_DROP_MIN, BOUNCER_DROP_MAX} }

CapButtons(g) ==
    IF any_placing(g) THEN {}
    ELSE IF g.pipe_purchases < 1 THEN { ButtonClick("pipe_button") }
    ELSE IF /\ g.bouncepad_charges > 0
            /\ Len(g.track_powerups) >= POWERUP_MAX_ACTIVE
            /\ g.powerup_spawn_timer >= g.powerup_spawn_delay
    THEN { ButtonClick("bouncepad_button") }
    ELSE IF g.bouncers # <<>> /\ g.blocks = <<>>
    THEN { ButtonClick("block_button") }
    ELSE {}

CapSpots(g) ==
    IF g.placing_pipe # None THEN { FieldClick(0, <<4, 19>>) }
    ELSE IF g.placing_bouncer # None
    THEN { FieldClick(NodeProgress(CapNodes.pad), <<0, 0>>) }
    ELSE IF g.placing_block # None
    THEN { FieldClick(NodeProgress(CapNodes.block), <<0, 0>>) }
    ELSE {}

InitCap == Construct(CapLevel, POWERUP_DELAY_MIN)

CapSkills == CarrySkills

\* a frame passes when there is nothing the player can buy, place or remove
CapFrame ==
    /\ now < CapMaxTime
    /\ game.round_start_ms # None
    /\ \A c \in CapButtons(game) \cup CapSpots(game) :
           handle_click(game, now, c, NoDrops) = game
    /\ game.bouncers # <<>> => game.blocks = <<>>
    /\ \E rnd \in CapDraws(game) : Frame(CapFrameLength, rnd)

CapBuild ==
    /\ game.round_start_ms # None
    /\ \E c \in CapButtons(game) \cup CapSpots(game) : Click(c, NoDrops)

\* the player removes the block while a pad waits for removals
CapRemove ==
    /\ game.bouncers # <<>>
    /\ game.blocks # <<>>
    /\ ~any_placing(game)
    /\ \E drops \in CapDrops :
           RightClick(FieldClick(NodeProgress(CapNodes.block), <<0, 0>>), drops)

NextCap == CapSkills \/ CapFrame \/ CapBuild \/ CapRemove

SpecCap == InitCap /\ [][NextCap]_vars

\* ------------------------------------------------------------------
\* The turbo zones: a round of a level of TurboLevels is under way, the
\* purse holds TurboCoins, and the player buys a zone and clicks with it
\* on any point of the track
\* ------------------------------------------------------------------
TurboLevels == {3, 4}

TurboCoins == 10000

TurboOpened(level) ==
    handle_click(
        handle_click(SpiralGame(level, 0, POWERUP_DELAY_MAX), 0,
                     SkillClick("coin_rain"), NoDrops),
        0, ButtonClick("confirm"), NoDrops)

InitTurbo ==
    /\ \E level \in TurboLevels :
           game = [TurboOpened(level) EXCEPT !.coins = TurboCoins]
    /\ now = 0
    /\ op = Op("init")
    /\ steps = <<>>
    /\ boosted = None
    /\ session = GameSession
    /\ paid = {}

TurboBuy ==
    /\ game.turbo_counter = 0
    /\ ~any_placing(game)
    /\ Click(ButtonClick("turbo_button"), NoDrops)

\* nearest_point_on_track gives the progress of the click: any point of
\* the track
TurboPlace ==
    /\ game.placing_turbo_pipe # None
    /\ \E p \in 0..ProgressMax : Click(FieldClick(p, <<0, 0>>), NoDrops)

NextTurbo == TurboBuy \/ TurboPlace

SpecTurbo == InitTurbo /\ [][NextTurbo]_vars

\* ------------------------------------------------------------------
\* Score and result: the rounds of SpecStorm on the levels AgreeLevels,
\* whose targets the player reaches by balls, reaches by a storm, or
\* misses; when the round is over a key (r, Space or Enter) resets it
\* ------------------------------------------------------------------
AgreeLevels == {3, 4}

InitAgree == \E l \in AgreeLevels : Construct(l, POWERUP_DELAY_MIN)

AgreeKey ==
    /\ ~game.round_active
    /\ \E key \in {"r", "space", "return"} : KeyDown(key, POWERUP_DELAY_MIN)

NextAgree == NextStorm \/ AgreeKey

SpecAgree == InitAgree /\ [][NextAgree]_vars

\* ------------------------------------------------------------------
\* The purse: a round of level PurseLevel in frames of PurseFrameLength,
\* in which power-ups of every kind land in the way of the balls.  At
\* PurseBuildAt the player, by then rich, uses the charges picked up and
\* asks for the round again; the new round begins with an empty purse,
\* the player waits until it holds PursePoor, and then clicks on every
\* button of the shop, places what was bought and removes what is placed,
\* until the shop refuses
\* ------------------------------------------------------------------
PurseLevel == 3

PurseBuildAt == 20000

PurseFrameLength == 5000

PurseMaxTime == 40000

PursePoor == 25

\* the gadgets bought, or made of a charge, since the last reset
PurseBought(g) ==
    g.pipe_counter + g.block_counter + g.turbo_counter + g.portal_counter
    + g.storm_counter + g.bouncer_counter

\* the player shops with a purse below this
PurseRich == 100

PursePowerups ==
    { [ok |-> TRUE, kind |-> k, progress |-> NodeProgress(30)] :
        k \in {"speed_boost", "storm", "bouncepad"} }

PurseDraws == Draws({POWERUP_DELAY_MIN}, PursePowerups, {0}, {NoDrops})

PurseDrops == [k \in 1..BOUNCER_DROP_MIN |-> [kind |-> "storm", offset |-> 0]]

PurseButtons(g) ==
    { ButtonClick(b) : b \in {"speed_boost_button", "storm_button",
                              "bouncepad_button"} }
    \cup (IF g.coins < PurseRich
          THEN { ButtonClick(b) : b \in {"pipe_button", "block_button",
                                         "turbo_button", "portal_button"} }
          ELSE {})

\* the spot of each kind of gadget
PurseSpot(kind) ==
    CASE kind = "pipe" -> FieldClick(NodeProgress(10), <<10, 14>>)
      [] kind = "block" -> FieldClick(NodeProgress(19), <<0, 0>>)
      [] kind = "turbo" -> FieldClick(NodeProgress(30) + NodeStep \div 2, <<0, 0>>)
      [] kind = "portal" -> FieldClick(NodeProgress(5), <<0, 0>>)
      [] kind = "storm" -> FieldClick(NodeProgress(22), <<0, 0>>)
      [] OTHER -> FieldClick(NodeProgress(26), <<0, 0>>)

InitPurse == Construct(PurseLevel, POWERUP_DELAY_MIN)

PurseSkills == CarrySkills

\* frames pass until PurseBuildAt, and later until the purse holds
\* PursePoor
PurseFrame ==
    /\ \/ now < PurseBuildAt
       \/ now < PurseMaxTime /\ game.coins < PursePoor /\ PurseBought(game) = 0
    /\ game.round_start_ms # None
    /\ \E rnd \in PurseDraws : Frame(PurseFrameLength, rnd)

PurseBuy ==
    /\ now >= PurseBuildAt
    /\ \E c \in PurseButtons(game) : Click(c, NoDrops)

PursePlace ==
    /\ now >= PurseBuildAt
    /\ \E kind \in PendingSlots(game) : Click(PurseSpot(kind), PurseDrops)

PurseRemove ==
    /\ now >= PurseBuildAt
    /\ game.coins < PurseRich
    /\ \E kind \in {"pipe", "block", "turbo", "bouncer", "storm", "portal"} :
           RightClick(PurseSpot(kind), PurseDrops)

PurseRetry ==
    /\ now >= PurseBuildAt
    /\ game.coins >= PurseRich
    /\ game.round_start_ms # None
    /\ Command("retry", POWERUP_DELAY_MIN)

NextPurse ==
    PurseSkills \/ PurseFrame \/ PurseBuy \/ PursePlace \/ PurseRemove
    \/ PurseRetry

SpecPurse == InitPurse /\ [][NextPurse]_vars

\* ------------------------------------------------------------------
\* Storms carried forward: the round of SpecStorm, in which the player
\* presses Enter as soon as the round is won while a storm emitter that
\* has settled is still on the track; the next level begins with the
\* emitter carried forward
\* ------------------------------------------------------------------
InitRearm == Construct(StormLevel, POWERUP_DELAY_MIN)

RearmKey ==
    /\ game.round_result = "success"
    /\ \E k \in DOMAIN game.storm_emitters :
           game.storm_emitters[k].last_reward > 0
    /\ KeyDown("return", POWERUP_DELAY_MIN)

NextRearm == NextStorm \/ RearmKey

SpecRearm == InitRearm /\ [][NextRearm]_vars

\* ------------------------------------------------------------------
\* The paused session: the session of app.py up to PauseMaxTime, longer
\* than a round.  The first handler picks the skill and confirms, which
\* starts the round; the second one presses the pause button, up to
\* SessionMaxRequests times
\* ------------------------------------------------------------------
PauseMaxTime == 70000

\* the n-th request that reaches the handler h
PauseRequests(h, n) ==
    IF h = 1
    THEN IF n = 1 THEN [kind |-> "click", c |-> SkillClick("coin_rain")]
                  ELSE [kind |-> "click", c |-> ButtonClick("confirm")]
    ELSE [kind |-> "toggle_pause", c |-> NoClick]

InitPause == Construct(1, POWERUP_DELAY_MAX)

PauseTick ==
    /\ session.pc[Worker] = "tick"
    /\ now + SessionFrameLength <= PauseMaxTime
    /\ now' = now + SessionFrameLength
    /\ session' = [session EXCEPT !.pc[Worker] = "acquire"]
    /\ UNCHANGED <<game, op, steps, boosted, paid>>

PauseRequest(h) ==
    /\ session.pc[h] = "idle"
    /\ session.served[h] < SessionMaxRequests
    /\ session' = [session EXCEPT
           !.request[h] = PauseRequests(h, session.served[h] + 1),
           !.served[h] = @ + 1,
           !.pc[h] = IF h = 1 THEN "set_pos" ELSE "acquire"]
    /\ UNCHANGED <<game, now, op, steps, boosted, paid>>

PauseLoop ==
    PauseTick \/ acquire(Worker) \/ loop_update \/ render_locked(Worker)
    \/ release(Worker)

PauseHandler ==
    \E h \in Handlers :
        PauseRequest(h) \/ set_pos(h) \/ acquire(h) \/ toggle_pause(h)
        \/ call(h) \/ render_locked(h) \/ release(h)

NextPause == PauseLoop \/ PauseHandler

SpecPause == InitPause /\ [][NextPause]_vars

\* ------------------------------------------------------------------
\* Progress: a round of level ProgressLevel, in frames of 5 s until
\* ProgressFineFrom and of ProgressFrameLength after it.  At the times
\* ProgressBuildAt the player buys and places a pipe, a block and a turbo
\* zone, or upgrades the block; at the times ProgressRemoveAt the player
\* removes any of them, with balls inside; the last of these times lies
\* after the end of the round.  Frames go on until ProgressMaxTime, ten
\* seconds after the end of the round.  SpecProgressFair adds that the
\* frames keep occurring
\* ------------------------------------------------------------------
ProgressLevel == 3

ProgressFineFrom == 50000

ProgressFrameLength == 1000

ProgressMaxTime == 70000

ProgressBuildAt == {50000, 56000}

ProgressRemoveAt == {53000, 61000}

\* the purchases of each kind: a block is placed and upgraded, a pipe and
\* a turbo zone are placed again when they have been removed
ProgressMaxPurchases == 2

ProgressNodes == [block |-> 22, turbo |-> 30]

ProgressDraws == Draws({POWERUP_DELAY_MAX}, {NoPowerup}, {0}, {NoDrops})

\* one purchase at a time: the pipe, then the block, then the turbo zone,
\* then the upgrade of the block
ProgressButtons(g) ==
    IF any_placing(g) THEN {}
    ELSE IF g.pipes = <<>> /\ g.pipe_counter < ProgressMaxPurchases
    THEN { ButtonClick("pipe_button") }
    ELSE IF g.blocks = <<>> /\ g.block_counter < ProgressMaxPurchases
    THEN { ButtonClick("block_button") }
    ELSE IF g.turbo_pipes = <<>> /\ g.turbo_counter < ProgressMaxPurchases
    THEN { ButtonClick("turbo_button") }
    ELSE IF g.block_counter < ProgressMaxPurchases
    THEN { ButtonClick("block_button") }
    ELSE {}

ProgressSpots(g) ==
    IF g.placing_pipe # None THEN { FieldClick(0, <<4, 19>>) }
    ELSE IF g.placing_block # None
    THEN { FieldClick(NodeProgress(ProgressNodes.block), <<0, 0>>) }
    ELSE IF g.placing_turbo_pipe # None
    THEN { FieldClick(NodeProgress(ProgressNodes.turbo) + NodeStep \div 2,
                      <<0, 0>>) }
    ELSE {}

ProgressRemovals ==
    { FieldClick(0, <<4, 19>>),
      FieldClick(NodeProgress(ProgressNodes.block), <<0, 0>>),
      FieldClick(NodeProgress(ProgressNodes.turbo) + NodeStep \div 2, <<0, 0>>) }

InitProgress == Construct(ProgressLevel, POWERUP_DELAY_MAX)

ProgressSkills == CarrySkills

\* the length of the frame that begins at the time t
ProgressLength(t) == IF t < ProgressFineFrom THEN 5000 ELSE ProgressFrameLength

ProgressFrame ==
    /\ now < ProgressMaxTime
    /\ game.round_start_ms # None
    /\ \E rnd \in ProgressDraws : Frame(ProgressLength(now), rnd)

\* the clock's part of ProgressFrame: the steps of SpecProgress in which
\* the clock advances are its frames, and a frame is possible whenever
\* the clock can advance
ProgressTick ==
    /\ now < ProgressMaxTime
    /\ game.round_start_ms # None
    /\ now' = now + ProgressLength(now)

ProgressBuild ==
    /\ now \in ProgressBuildAt
    /\ \E c \in ProgressButtons(game) \cup ProgressSpots(game) :
           /\ handle_click(game, now, c, NoDrops) # game
           /\ Click(c, NoDrops)

ProgressRemove ==
    /\ now \in ProgressRemoveAt
    /\ \E c \in ProgressRemovals :
           /\ handle_right_click(game, now, c, NoDrops) # game
           /\ RightClick(c, NoDrops)

NextProgress ==
    ProgressSkills \/ ProgressFrame \/ ProgressBuild \/ ProgressRemove

SpecProgress == InitProgress /\ [][NextProgress]_vars

\* the hypothesis of the claim: ticks keep occurring
SpecProgressFair == SpecProgress /\ WF_now(ProgressTick)

\* the kinds of gadget, in the order in which a removal click tries them
RemovalOrder == <<"pipe", "block", "turbo", "bouncer", "storm", "portal">>

\* the ids of the placed gadgets of a kind
PlacedIds(g, kind) == { Placed(g, kind)[i].id : i \in 1..Len(Placed(g, kind)) }

\* the click c is within range of the placed gadget item of a kind
InRange(c, kind, item) ==
    CASE kind = "pipe" ->
            /\ item.entry_progress = NodeProgress(c.span[1])
            /\ item.exit_progress = NodeProgress(c.span[2])
      [] kind = "block" ->
            within(c.progress, item.progress, BLOCK_RADIUS + 12, ClosePairs30)
      [] kind = "turbo" ->
            \/ item.start_progress <= c.progress /\ c.progress <= item.end_progress
            \/ within(c.progress, item.start_progress, 18, ClosePairs(18))
            \/ within(c.progress, item.end_progress, 18, ClosePairs(18))
      [] kind = "bouncer" ->
            within(c.progress, item.progress, BOUNCER_RADIUS + 12,
                   ClosePairs(BOUNCER_RADIUS + 12))
      [] kind = "storm" ->
            within(c.progress, item.progress, STORM_RADIUS + 12,
                   ClosePairs(STORM_RADIUS + 12))
      [] kind = "portal" ->
            within(c.progress, item.progress, PORTAL_RADIUS + 12,
                   ClosePairs(PORTAL_RADIUS + 12))

\* the ids of the placed gadgets of a kind within range of the click
RangeIds(g, c, kind) ==
    { Placed(g, kind)[i].id :
        i \in { j \in 1..Len(Placed(g, kind)) : InRange(c, kind, Placed(g, kind)[j]) } }

\* the first kind, in the removal order, with a gadget within range
FirstKind(g, c) ==
    RemovalOrder[CHOOSE n \in 1..Len(RemovalOrder) :
        /\ RangeIds(g, c, RemovalOrder[n]) # {}
        /\ \A m \in 1..(n - 1) : RangeIds(g, c, RemovalOrder[m]) = {}]

\* the gadget placed last among the ids: a gadget is bought and placed
\* before the next one of its kind is bought, so ids grow with placement
LastPlaced(ids) == CHOOSE id \in ids : \A other \in ids : other <= id

\* the removal click of a step: a secondary click on the play area of a
\* round that has begun
RemovalClick ==
    /\ op'.name = "right_click"
    /\ op'.c.target = "field"
    /\ ~game.skill_selection_required

\* C18 (removal choice and refund) as stated: a removal click within range
\* of nothing changes nothing; otherwise, of the first kind in the order
\* pipe, block, turbo zone, pad, emitter, portal that has a gadget within
\* range, the gadget placed last among those within range is removed, no
\* gadget of another kind is removed (but for a pad that the removal makes
\* drop), and the coins grow by REMOVAL_BONUS
C18_RemovalChoice ==
    [][ RemovalClick =>
          IF \A n \in 1..Len(RemovalOrder) :
                 RangeIds(game, op'.c, RemovalOrder[n]) = {}
          THEN game' = game
          ELSE
              LET kind == FirstKind(game, op'.c)
                  gone == LastPlaced(RangeIds(game, op'.c, kind))
              IN  /\ PlacedIds(game', kind) \cup {gone} = PlacedIds(game, kind)
                  /\ gone \notin PlacedIds(game', kind)
                  /\ \A n \in 1..Len(RemovalOrder) :
                         RemovalOrder[n] \notin {kind, "bouncer"}
                         => Placed(game', RemovalOrder[n]) = Placed(game, RemovalOrder[n])
                  /\ game'.coins = game.coins + REMOVAL_BONUS ]_vars

\* two portals lay within range of the removal click, and the one that is
\* left is the one that was placed last
C18_Witness ==
    /\ op.name = "right_click"
    /\ op.c.progress = NodeProgress(19)
    /\ Len(game.portals) = 1
    /\ game.portals[1].progress = NodeProgress(19)
    /\ game.portals[1].id = game.portal_counter
    /\ game.portal_counter >= 2

\* the step removes a gadget: a removal click with a gadget within range
Removes == RemovalClick /\ \E n \in 1..Len(RemovalOrder) :
                               RangeIds(game, op'.c, RemovalOrder[n]) # {}

\* the pads of g but for the one at index i
OtherPads(g, i) == [k \in 1..(Len(g.bouncers) - 1) |->
                       g.bouncers[IF k < i THEN k ELSE k + 1]]

\* no pad on the field has run out of removals or is marked to drop
PadsPending(g) ==
    \A i \in 1..Len(g.bouncers) :
        /\ g.bouncers[i].removals_remaining > 0
        /\ ~g.bouncers[i].ready_to_drop

\* C17 (bounce-pad lifecycle): the removal of a gadget that is not a pad
\* takes 1 from removals_remaining of exactly one pending pad, the first,
\* and leaves the other pads alone; the removal of a pad takes nothing from
\* the pads that stay; a pad whose counter comes to 0 is gone after the
\* same click, which adds between BOUNCER_DROP_MIN and BOUNCER_DROP_MAX
\* power-ups to the track, and otherwise a removal adds none; in every
\* state no pad on the field has removals_remaining <= 0 or ready_to_drop
C17_PadLifecycle ==
    /\ [] PadsPending(game)
    /\ [][ Removes =>
             LET kind == FirstKind(game, op'.c)
                 i == pending_bouncer_target(game)
                 added == Len(game'.track_powerups) - Len(game.track_powerups)
             IN  IF kind = "bouncer"
                 THEN /\ added = 0
                      /\ \E k \in 1..Len(game.bouncers) :
                             game'.bouncers = OtherPads(game, k)
                 ELSE IF i = 0
                 THEN added = 0 /\ game'.bouncers = game.bouncers
                 ELSE IF game.bouncers[i].removals_remaining > 1
                 THEN /\ added = 0
                      /\ game'.bouncers =
                             [game.bouncers EXCEPT ![i].removals_remaining = @ - 1]
                 ELSE /\ added \in BOUNCER_DROP_MIN..BOUNCER_DROP_MAX
                      /\ game'.bouncers = OtherPads(game, i) ]_vars

\* a removal has just used up the first of two pads: that pad is gone, its
\* power-ups lie on its spot, and the second pad has its full counter
C17_Witness ==
    /\ op.name = "right_click"
    /\ game.bouncer_counter = 2
    /\ Len(game.bouncers) = 1
    /\ game.bouncers[1].id = 2
    /\ game.bouncers[1].removals_remaining = BOUNCER_TRIGGER_REMOVALS
    /\ \E p \in 0..ProgressMax :
           Cardinality({ k \in 1..Len(game.track_powerups) :
                            game.track_powerups[k].progress = p })
               >= BOUNCER_DROP_MIN

\* ------------------------------------------------------------------
\* Claims about the portals, checked under SpecPortal
\* ------------------------------------------------------------------

\* the step is a click on the track that sets the pending portal down as a
\* portal of its own (not an infusion of a cooling pair)
PlacesPortal ==
    /\ op'.name = "click"
    /\ op'.c.target = "field"
    /\ ~game.skill_selection_required
    /\ game.placing_portal # None
    /\ game'.placing_portal = None
    /\ ~ClickInfuses(game, op'.c)

\* the portal of ids that was placed first
FirstPlaced(ids) == CHOOSE id \in ids : \A other \in ids : id <= other

\* C15 (portal retention) as stated: at most two portals lie on the field;
\* the portal just placed is among them; and when it is the third, the
\* portal that goes is the one placed first of the two that lay there
C15_Retention ==
    /\ [](Len(game.portals) <= 2)
    /\ [][ PlacesPortal =>
             LET new == game.placing_portal[1].id
                 old == PlacedIds(game, "portal")
             IN  /\ new \in PlacedIds(game', "portal")
                 /\ PlacedIds(game', "portal") =
                        IF Len(game.portals) < 2 THEN old \cup {new}
                        ELSE (old \ {FirstPlaced(old)}) \cup {new} ]_vars

\* a third portal was bought and set down on node 10, before the two on the
\* field, and the two on the field are still the first two
C15_Witness ==
    /\ op.name = "click"
    /\ op.c.progress = NodeProgress(10)
    /\ game.portal_counter = 3
    /\ game.placing_portal = None
    /\ game.portal_state = "inactive"
    /\ PlacedIds(game, "portal") = {1, 2}

\* the cooldown that is left at time t
CooldownLeft(g, t) == Max(0, g.portal_cooldown_until - t)

\* the step is an infusion: a click with the pending portal within
\* PORTAL_INFUSION_RANGE of a portal of a cooling pair
Infuses ==
    /\ op'.name = "click"
    /\ op'.c.target = "field"
    /\ ~game.skill_selection_required
    /\ ClickInfuses(game, op'.c)
    /\ \E i \in 1..Len(game.portals) :
           within(snap_progress_point(op'.c.progress), game.portals[i].progress,
                  PORTAL_INFUSION_RANGE, ClosePairs40)

\* the step is a frame of the round
Ticks == op'.name = "frame" /\ game.round_start_ms # None

\* C16 (portal state machine): portal_state changes only from inactive to
\* active at a frame with two portals placed, from active to cooldown at a
\* frame at or after portal_active_until, from cooldown to active at a
\* frame at or after portal_cooldown_until or at an infusion that leaves
\* no cooldown, and to inactive when a portal is removed or placed, fewer
\* than two portals lie on the field, or the round is reset; and each of
\* these frames does change it.  An infusion keeps the portals, uses up the
\* pending portal, and takes PORTAL_COOLDOWN_REDUCTION from the cooldown
\* that is left: the pair is active when none is left, else it cools down
\* for the rest
C16_PortalStates ==
    [][ LET s == game.portal_state
            s2 == game'.portal_state
        IN  /\ s2 \in {"inactive", "active", "cooldown"}
            /\ s # s2 =>
                 CASE s = "inactive" /\ s2 = "active" ->
                          Ticks /\ Len(game.portals) >= 2
                   [] s = "active" /\ s2 = "cooldown" ->
                          Ticks /\ now' >= game.portal_active_until
                   [] s = "cooldown" /\ s2 = "active" ->
                          \/ Ticks /\ now' >= game.portal_cooldown_until
                          \/ Infuses /\ CooldownLeft(game, now)
                                            <= PORTAL_COOLDOWN_REDUCTION
                   [] s2 = "inactive" ->
                          \/ /\ op'.name = "right_click"
                             /\ Len(game'.portals) < Len(game.portals)
                          \/ PlacesPortal
                          \/ Len(game'.portals) < 2
                          \/ op'.name \in {"advance", "restart"}
                   [] OTHER -> FALSE
            /\ Ticks =>
                 /\ s = "inactive" /\ Len(game.portals) >= 2 => s2 = "active"
                 /\ s = "active" /\ now' >= game.portal_active_until
                        => s2 = "cooldown"
                 /\ s = "cooldown" /\ now' >= game.portal_cooldown_until
                        => s2 = "active"
            /\ Infuses =>
                 /\ game'.portals = game.portals
                 /\ game'.placing_portal = None
                 /\ game'.coins = game.coins
                 /\ IF CooldownLeft(game, now) <= PORTAL_COOLDOWN_REDUCTION
                    THEN s2 = "active"
                    ELSE /\ s2 = "cooldown"
                         /\ CooldownLeft(game', now') =
                                CooldownLeft(game, now) - PORTAL_COOLDOWN_REDUCTION
      ]_vars

\* an infusion has just taken PORTAL_COOLDOWN_REDUCTION from a full
\* cooldown: no frame leaves this much of it
C16_Witness ==
    /\ op.name = "click"
    /\ game.portal_state = "cooldown"
    /\ game.placing_portal = None
    /\ Len(game.portals) = 2
    /\ CooldownLeft(game, now) =
           PORTAL_COOLDOWN_DURATION - PORTAL_COOLDOWN_REDUCTION

\* ------------------------------------------------------------------
\* Claims about pipes removed under a ball, checked under SpecTransit
\* ------------------------------------------------------------------

\* the ball of the history st began the frame inside a pipe that the game
\* g no longer holds
Orphaned(g, st) ==
    /\ st.before.in_pipe
    /\ st.before.pipe_id \notin PlacedIds(g, "pipe")

\* C14 (removed pipe during transit) as stated: a ball that begins a frame
\* inside a pipe that has been removed leaves the transit in that frame
\* (in_pipe false and no pipe_id, unless it enters another pipe in the same
\* frame), moves on along the path, and has the gadget effects applied to
\* it, whether or not other pipes are placed
C14_TransitRemoved ==
    [][ Ticks =>
          \A k \in 1..Len(steps') :
              Orphaned(game, steps'[k]) =>
                  /\ \/ ~steps'[k].after.in_pipe /\ steps'[k].after.pipe_id = 0
                     \/ steps'[k].entered # 0
                  /\ ~steps'[k].in_transit
                  /\ steps'[k].effects
                  /\ steps'[k].after.distance > steps'[k].before.distance ]_vars

\* a frame has passed over a ball inside a pipe that was removed, no pipe
\* being left on the field
C14_Witness ==
    /\ op.name = "frame"
    /\ game.pipes = <<>>
    /\ \E k \in 1..Len(steps) : steps[k].before.in_pipe

\* ------------------------------------------------------------------
\* Claims about the score, checked under SpecScore
\* ------------------------------------------------------------------

RECURSIVE ScoreGain(_, _)
\* what the balls that completed in the first n histories are worth in
\* score
ScoreGain(hist, n) ==
    IF n = 0 THEN 0
    ELSE ScoreGain(hist, n - 1)
         + (IF hist[n].completed
            THEN hist[n].after.score_value + hist[n].after.bonus_score ELSE 0)

RECURSIVE CoinGain(_, _)
\* what they are worth in coins
CoinGain(hist, n) ==
    IF n = 0 THEN 0
    ELSE CoinGain(hist, n - 1)
         + (IF hist[n].completed
            THEN hist[n].after.coin_value + hist[n].after.bonus_score ELSE 0)

Uids(g) == { g.balls[i].uid : i \in 1..Len(g.balls) }

\* C20 (completion scoring): in a frame whose update runs with round_active
\* set, the score grows by score_value + bonus_score and the coins by
\* coin_value + bonus_score of each ball that completes, and when a ball
\* completes the round is recorded as won once the score has reached the
\* target; in a frame whose update runs with round_active cleared, score,
\* coins and result stay as they are; in both, the balls that complete
\* are taken off the track
C20_CompletionScoring ==
    [][ Ticks =>
          LET n == Len(steps')
              some == \E k \in 1..n : steps'[k].completed
          IN  /\ \A k \in 1..n :
                     steps'[k].completed => steps'[k].uid \notin Uids(game')
              /\ IF op'.timer.round_active
                 THEN /\ game'.score = game.score + ScoreGain(steps', n)
                      /\ game'.coins = game.coins + CoinGain(steps', n)
                      /\ game'.round_result =
                            IF /\ some
                               /\ level_target(game) > 0
                               /\ game'.score >= level_target(game)
                            THEN "success"
                            ELSE op'.timer.round_result
                 ELSE /\ game'.score = game.score
                      /\ game'.coins = game.coins
                      /\ game'.round_result = op'.timer.round_result ]_vars

\* a ball with a bonus has just completed after the end of the round
C20_Witness ==
    /\ op.name = "frame"
    /\ ~op.timer.round_active
    /\ \E k \in 1..Len(steps) :
           steps[k].completed /\ steps[k].after.bonus_score > 0

\* ------------------------------------------------------------------
\* Claims about the time before the round, checked under SpecWaiting
\* ------------------------------------------------------------------

\* the round of g has not started: no round clock, a skill selection
\* pending
Waiting(g) == g.round_start_ms = None /\ g.skill_selection_required

\* C19 (before the round): while the round has not started a frame
\* changes nothing, a secondary click changes nothing, and a primary click
\* changes nothing but the set of selected skills (a click on a skill) or,
\* with a skill selected, the pending selection and the round clock, which
\* starts at the time of the click (a click on confirm)
C19_BeforeRound ==
    [][ Waiting(game) =>
          /\ op'.name \in {"frame", "right_click"} => game' = game
          /\ op'.name = "click" =>
               \/ game' = game
               \/ /\ op'.c.target = "skill"
                  /\ game' = [game EXCEPT !.active_skills = game'.active_skills]
               \/ /\ op'.c.target = "confirm"
                  /\ game.active_skills # {}
                  /\ game' = [game EXCEPT !.skill_selection_required = FALSE,
                                          !.round_start_ms = Some(now)] ]_vars

\* a secondary click on a block of the layout carried to this level,
\* before its round: the block is still there
C19_Witness ==
    /\ op.name = "right_click"
    /\ Waiting(game)
    /\ RangeIds(game, op.c, "block") # {}

\* ------------------------------------------------------------------
\* C21: the ids of the gadgets
\* ------------------------------------------------------------------
GadgetKinds == {"pipe", "block", "turbo", "bouncer", "storm", "portal"}

\* the gadget of a kind that is bought and not yet placed, if any
Pending(g, kind) ==
    CASE kind = "pipe" -> g.placing_pipe
      [] kind = "block" -> g.placing_block
      [] kind = "turbo" -> g.placing_turbo_pipe
      [] kind = "bouncer" -> g.placing_bouncer
      [] kind = "storm" -> g.placing_storm
      [] kind = "portal" -> g.placing_portal

\* the gadgets of a kind the game holds, placed or pending, and their ids
Held(g, kind) == Placed(g, kind) \o Pending(g, kind)

HeldIds(g, kind) == { Held(g, kind)[i].id : i \in 1..Len(Held(g, kind)) }

\* the step calls reset_round without carry_items
ResetsFresh == op'.level > 0 /\ ~op'.carry

\* the gadgets held have ids of their own, none above the kind's counter,
\* and a step issues at most the id that follows the counter
IdsIssued(kind) ==
    /\ Cardinality(HeldIds(game', kind)) = Len(Held(game', kind))
    /\ \A id \in HeldIds(game', kind) : 1 <= id /\ id <= Counter(game', kind)
    /\ \A id \in HeldIds(game', kind) \ HeldIds(game, kind) :
           id = Counter(game', kind)
    /\ Counter(game', kind) \in { Counter(game, kind), Counter(game, kind) + 1 }
    /\ Counter(game', kind) > Counter(game, kind) =>
           /\ Pending(game', kind) # None
           /\ Pending(game', kind)[1].id = Counter(game', kind)

\* C21 as stated: over every step, retries and level changes included,
\* the counter of each kind never falls and every gadget that appears has
\* the id that follows it, so that no id is issued twice
C21_IdsAsStated == [][ \A kind \in GadgetKinds : IdsIssued(kind) ]_vars

\* C21 (gadget ids): between two resets without carry (a retry, a restart,
\* a level change that carries nothing) the ids of a kind are issued in
\* purchase order from the kind's counter, each one more than the last, and
\* none is issued twice, over purchases, placements, removals, block
\* upgrades and level changes that carry the layout; a reset without carry
\* empties the field and puts every counter back to 0
C21_Ids ==
    [][ \A kind \in GadgetKinds :
          IF ResetsFresh
          THEN Counter(game', kind) = 0 /\ Held(game', kind) = <<>>
          ELSE IdsIssued(kind) ]_vars

\* after a retry, a block with id 1 is bought again while the level that
\* was retried is still being played
C21_Witness ==
    /\ game.round_start_ms = Some(IdsRetryAt)
    /\ game.current_level = IdsLevel
    /\ game.block_counter = 1
    /\ game.placing_block # None
    /\ game.placing_block[1].id = 1
    /\ game.pipe_counter = 1
    /\ op.name = "click"

\* ------------------------------------------------------------------
\* C23: the level advance
\* ------------------------------------------------------------------
\* the step is a press of Enter or the wrapper's command "next"
AsksAdvance ==
    \/ op'.name = "key" /\ op'.c.key = "return"
    \/ op'.name = "command" /\ op'.c.key = "next"

\* the level the advance leads to, as C23 states it
LevelAfter(level) == IF level < max_level THEN level + 1 ELSE 1

\* C23 (level advance): a press of Enter or a command "next" changes the
\* level, the score, the round and the gadgets only when round_result is
\* "success"; it then leads to the next level, keeping every placed gadget
\* and every id counter when that level is higher, and from the last level
\* to level 1 with an empty field and every counter at 0; the round is new
\* either way, and current_level is within 1..max_level in every state
C23_LevelAdvance ==
    /\ [](game.current_level \in 1..max_level)
    /\ [][ AsksAdvance =>
            IF game.round_result # "success"
            THEN /\ game'.current_level = game.current_level
                 /\ game'.round_result = game.round_result
                 /\ game'.round_start_ms = game.round_start_ms
                 /\ game'.score = game.score /\ game'.coins = game.coins
                 /\ game'.balls = game.balls
                 /\ \A kind \in GadgetKinds :
                        /\ Held(game', kind) = Held(game, kind)
                        /\ Counter(game', kind) = Counter(game, kind)
            ELSE /\ game'.current_level = LevelAfter(game.current_level)
                 /\ game'.round_result = "none" /\ game'.round_active
                 /\ game'.round_start_ms = None
                 /\ game'.score = 0 /\ game'.coins = 0 /\ game'.balls = <<>>
                 /\ \A kind \in GadgetKinds :
                        IF LevelAfter(game.current_level) > game.current_level
                        THEN /\ SameIds(Placed(game, kind), Placed(game', kind))
                             /\ Counter(game', kind) = Counter(game, kind)
                        ELSE /\ Placed(game', kind) = <<>>
                             /\ Counter(game', kind) = 0
         ]_vars

\* Enter has just taken a game won at the last level, with turbo zones on
\* the field, back to level 1, where nothing is placed
C23_Witness ==
    /\ op.name = "key" /\ op.c.key = "return"
    /\ op.level = 1 /\ ~op.carry
    /\ game.current_level = 1
    /\ game.turbo_pipes = <<>> /\ game.pipes = <<>>
    /\ game.turbo_counter = 0
    /\ game.round_result = "none"

\* ------------------------------------------------------------------
\* C24: the speed boost
\* ------------------------------------------------------------------
\* the instants at which try_activate_speed_boost is probed in a state
BoostProbes == { now + k * 1000 : k \in 0..25 }

\* a call at t is refused: no charge, a boost active, the cooldown not
\* elapsed, the round not started or not active, the ability locked
BoostRefused(g, t) ==
    \/ g.speed_boost_charges = 0
    \/ t < g.speed_boost_active_until
    \/ t < g.speed_boost_cooldown_until
    \/ g.round_start_ms = None
    \/ ~g.round_active
    \/ g.current_level < ADVANCED_UNLOCK_LEVEL

\* what a call of try_activate_speed_boost does, whenever it is made
BoostCall ==
    \A t \in BoostProbes :
        IF BoostRefused(game, t)
        THEN try_activate_speed_boost(game, t) = game
        ELSE try_activate_speed_boost(game, t) =
                 [game EXCEPT
                     !.speed_boost_charges = @ - 1,
                     !.speed_boost_active_until = t + SPEED_BOOST_DURATION,
                     !.speed_boost_cooldown_until =
                         t + SPEED_BOOST_DURATION + SPEED_BOOST_COOLDOWN]

\* the step activates the speed boost
Activates ==
    /\ op'.name = "click"
    /\ game'.speed_boost_active_until # game.speed_boost_active_until

\* a click on the boost button that is refused changes nothing, and one
\* that is not activates the boost
BoostClicked ==
    (op'.name = "click" /\ op'.c.target = "speed_boost_button") =>
        IF BoostRefused(game, now)
        THEN game' = game
        ELSE Activates /\ boosted' = Some(now)

\* the time between the activation of this step and the one before it
BoostGap == now - boosted[1]

\* C24 as stated: ... and any two activations are at least
\* SPEED_BOOST_DURATION + SPEED_BOOST_COOLDOWN apart
C24_BoostAsStated ==
    /\ []BoostCall
    /\ [][ /\ BoostClicked
           /\ (Activates /\ boosted # None) =>
                  BoostGap >= SPEED_BOOST_DURATION + SPEED_BOOST_COOLDOWN
         ]_vars

\* C24 (speed boost): try_activate_speed_boost changes nothing when there
\* is no charge, when a boost is active, when the cooldown has not elapsed,
\* when the round has not started or is not active, or when the level is
\* below ADVANCED_UNLOCK_LEVEL; otherwise it takes exactly one charge and
\* sets the active window to SPEED_BOOST_DURATION from the call and the
\* cooldown to SPEED_BOOST_COOLDOWN after that, so that two activations in
\* the same round (the earlier one after the round began: a round begins
\* without a charge) are at least duration + cooldown apart
C24_SpeedBoost ==
    /\ []BoostCall
    /\ [][ /\ BoostClicked
           /\ (Activates /\ boosted # None
                 /\ game.round_start_ms[1] < boosted[1]) =>
                  BoostGap >= SPEED_BOOST_DURATION + SPEED_BOOST_COOLDOWN
         ]_vars

\* a click on the boost button with a charge in hand has just been refused
\* because the cooldown that the last activation opened has not elapsed
C24_Witness ==
    /\ op.name = "click" /\ op.c.target = "speed_boost_button"
    /\ game.round_active /\ game.round_start_ms # None
    /\ game.speed_boost_charges > 0
    /\ boosted # None /\ boosted # Some(now)
    /\ game.speed_boost_active_until = boosted[1] + SPEED_BOOST_DURATION
    /\ game.speed_boost_cooldown_until
           = boosted[1] + SPEED_BOOST_DURATION + SPEED_BOOST_COOLDOWN
    /\ game.speed_boost_active_until <= now
    /\ now < game.speed_boost_cooldown_until

\* ------------------------------------------------------------------
\* C25: the spawn cadence
\* ------------------------------------------------------------------
\* floor((timer + dt) / interval), by repeated subtraction
RECURSIVE Whole(_, _)
Whole(time, interval) ==
    IF time < interval THEN 0 ELSE 1 + Whole(time - interval, interval)

\* the balls the rapid-fire skill owes for a frame
RapidDue(g, dt) ==
    IF "rapid_fire" \in g.active_skills
    THEN Whole(g.rapid_fire_timer + dt, RAPID_FIRE_INTERVAL) ELSE 0

\* C25 (spawn cadence): in a frame whose update runs with the round started
\* and round_active set, the base cadence spawns
\* floor((spawn_timer + dt) / SPAWN_INTERVAL) balls, which join the track
\* after the balls already on it in the order of their spawning, and the
\* remainder is left in spawn_timer; rapid fire adds its own due; in a
\* frame whose update runs with round_active cleared, or before the round
\* has started, no ball is spawned and spawn_timer stays; in every state
\* 0 <= spawn_timer < SPAWN_INTERVAL
C25_SpawnCadence ==
    /\ [](0 <= game.spawn_timer /\ game.spawn_timer < SPAWN_INTERVAL)
    /\ [][ op'.name = "frame" =>
            LET base == Whole(game.spawn_timer + op'.dt, SPAWN_INTERVAL)
                old == Len(game.balls)
            IN  IF game.round_start_ms # None /\ op'.timer.round_active
                THEN /\ game'.spawned_ball_count
                          = game.spawned_ball_count + base + RapidDue(game, op'.dt)
                     /\ game'.spawn_timer
                          = game.spawn_timer + op'.dt - base * SPAWN_INTERVAL
                     /\ Len(steps') = old + base
                     /\ \A k \in 1..base :
                            steps'[old + k].uid = game.spawned_ball_count + k
                ELSE /\ game'.spawned_ball_count = game.spawned_ball_count
                     /\ game'.spawn_timer = game.spawn_timer
                     /\ Len(steps') = old
                     /\ Uids(game') \subseteq Uids(game)
         ]_vars

\* a frame of 700 ms met a spawn_timer of 200 ms: three balls were spawned
\* by the base cadence and nothing is left in the timer
C25_Witness ==
    /\ op.name = "frame" /\ op.dt = 700
    /\ op.timer.round_active
    /\ game.spawn_timer = 0
    /\ now = 1100
    /\ game.current_level = 1
    /\ game.spawned_ball_count = 3
    /\ Len(steps) = 3

\* ------------------------------------------------------------------
\* C26: once per crossing
\* ------------------------------------------------------------------
\* in the step st the ball, outside a pipe, moved from below the distance d
\* to d or beyond
Crossed(st, d) ==
    st.effects /\ st.before.distance < d /\ d <= st.at_block

\* the steps of the frame in which a ball crossed d; with plain set, those
\* only in which the ball was not teleported
Crossings(d, plain) ==
    { k \in 1..Len(steps') :
        Crossed(steps'[k], d) /\ (plain => ~steps'[k].teleported) }

PowerupIds(g) == { g.track_powerups[i].id : i \in 1..Len(g.track_powerups) }

Charges(g, kind) ==
    CASE kind = "speed_boost" -> g.speed_boost_charges
      [] kind = "storm" -> g.storm_charges
      [] kind = "bouncepad" -> g.bouncepad_charges

\* the active blocks a ball crossed in the step st; with fresh set, those
\* only that it had not hit before
BlocksCrossed(st, fresh) ==
    { game.blocks[i].id : i \in
        { j \in 1..Len(game.blocks) :
            /\ game.blocks[j].is_active
            /\ Crossed(st, progress_to_distance(game.blocks[j].progress))
            /\ fresh => game.blocks[j].id \notin st.before.block_hits } }

\* every ball hits the active blocks it crossed, each once
BlockHits(fresh) ==
    \A k \in 1..Len(steps') :
        /\ steps'[k].fired = BlocksCrossed(steps'[k], fresh)
        /\ steps'[k].after.bonus_score
               = steps'[k].before.bonus_score
                 + BLOCK_BONUS * Cardinality(BlocksCrossed(steps'[k], fresh))

\* the power-ups that were crossed are picked up, each for one charge
Pickups(plain) ==
    LET crossed == { i \in 1..Len(game.track_powerups) :
            Crossings(progress_to_distance(game.track_powerups[i].progress),
                      plain) # {} }
    IN  /\ \A i \in 1..Len(game.track_powerups) :
               i \in crossed <=> game.track_powerups[i].id \notin PowerupIds(game')
        /\ \A kind \in {"speed_boost", "storm", "bouncepad"} :
               Charges(game', kind) = Charges(game, kind)
                   + Cardinality({ i \in crossed :
                                     game.track_powerups[i].kind = kind })

\* an emitter whose window is open counts every ball that crossed it; when
\* the window closes in the same frame the count goes into counted_eggs
StormTally(plain) ==
    \A i \in 1..Len(game.storm_emitters) :
        LET e == game.storm_emitters[i]
            n == Cardinality(Crossings(progress_to_distance(e.progress), plain))
        IN  (e.settle_at # 0 /\ now' <= e.settle_at) =>
                \E j \in 1..Len(game'.storm_emitters) :
                    LET e2 == game'.storm_emitters[j]
                    IN  /\ e2.id = e.id
                        /\ IF now' < e.settle_at
                           THEN e2.window_count = e.window_count + n
                           ELSE e2.counted_eggs
                                    = Max(e.counted_eggs, e.window_count + n)

\* C26 as stated: whatever else the ball crosses in the frame
C26_OnceAsStated ==
    [][ Ticks => BlockHits(FALSE) /\ Pickups(FALSE) /\ StormTally(FALSE) ]_vars

\* C26 (once per crossing): in a frame, a ball outside a pipe that moves
\* from below the distance of an active block it has not hit before to that
\* distance or beyond hits the block exactly once, whatever else it
\* crosses; a power-up on the track is picked up, for exactly one charge,
\* and an emitter with an open window counts the ball exactly once, when
\* the ball that crosses them does not also cross the entry of an active
\* portal pair in that frame; whatever the length of the frame and
\* whichever turbo zones and pipe entries the ball crosses as well
C26_OncePerCrossing ==
    [][ Ticks => BlockHits(TRUE) /\ Pickups(TRUE) /\ StormTally(TRUE) ]_vars

\* in one frame a ball hit a block, for one bonus, and was taken by the
\* portal pair, while an emitter with an open window has counted a ball
\* that crossed it without being teleported
C26_Witness ==
    /\ op.name = "frame"
    /\ \E k \in 1..Len(steps) :
           /\ steps[k].teleported
           /\ Cardinality(steps[k].fired) = 1
           /\ steps[k].after.bonus_score
                  = steps[k].before.bonus_score + BLOCK_BONUS
    /\ \E i \in 1..Len(game.storm_emitters) :
           /\ game.storm_emitters[i].window_count > 0
           /\ \E j \in 1..Len(steps) :
                  /\ ~steps[j].teleported
                  /\ Crossed(steps[j],
                         progress_to_distance(game.storm_emitters[i].progress))

\* ------------------------------------------------------------------
\* C27: completion in the same tick
\* ------------------------------------------------------------------
\* the ball of the history st ended the frame outside a pipe at or beyond
\* the end of the track
AtEnd(st) == ~st.after.in_pipe /\ st.after.distance >= track_total

\* C27 (completion in the same tick): a ball that is at or beyond the end
\* of the track when a frame has moved it, and not inside a pipe, is taken
\* off the track in that frame, also in the frame in which it leaves a pipe
\* that ends at the end of the track; so after every frame every ball left
\* outside a pipe is short of the end of the track
C27_SameTick ==
    [][ Ticks =>
          /\ \A k \in 1..Len(steps') :
                 AtEnd(steps'[k]) =>
                     steps'[k].completed /\ steps'[k].uid \notin Uids(game')
          /\ \A i \in 1..Len(game'.balls) :
                 ~game'.balls[i].in_pipe =>
                     game'.balls[i].distance < track_total ]_vars

\* a frame in which a ball left the pipe that ends at the end of the track
C27_Witness ==
    /\ op.name = "frame"
    /\ \E k \in 1..Len(steps) :
           /\ steps[k].exited # 0
           /\ steps[k].after.distance = track_total

\* ------------------------------------------------------------------
\* C28: the phases of a block
\* ------------------------------------------------------------------
\* the block b as the frame at time t leaves it: b2
PhaseStep(b, b2, t) ==
    IF b.is_active
    THEN IF t < b.spawn_ms + b.active_duration
         THEN b2.is_active /\ b2.spawn_ms = b.spawn_ms
         ELSE IF b.cooldown_duration > 0
         THEN ~b2.is_active /\ b2.cooldown_start_ms = t
         ELSE b2.is_active /\ b2.spawn_ms = t
    ELSE IF t < b.cooldown_start_ms + b.cooldown_duration
         THEN ~b2.is_active /\ b2.cooldown_start_ms = b.cooldown_start_ms
         ELSE b2.is_active /\ b2.spawn_ms = t

\* a click has placed a block
PlacesBlock ==
    /\ op'.name = "click"
    /\ Len(game'.blocks) = Len(game.blocks) + 1

\* C28 (block phases): a block is active when it is placed; a frame leaves
\* an active block active while its active_duration has not elapsed since
\* it became active and otherwise starts its cooldown, a block in cooldown
\* in cooldown while its cooldown_duration has not elapsed since the
\* cooldown began and otherwise makes it active again, and a block whose
\* cooldown_duration is 0 active in every case; a frame changes nothing
\* else of a block
C28_BlockPhases ==
    [][ /\ PlacesBlock =>
               LET b == game'.blocks[Len(game'.blocks)]
               IN  b.is_active /\ b.spawn_ms = now
        /\ Ticks =>
               /\ Len(game'.blocks) = Len(game.blocks)
               /\ \A i \in 1..Len(game.blocks) :
                      LET b == game.blocks[i]
                          b2 == game'.blocks[i]
                      IN  /\ PhaseStep(b, b2, now')
                          /\ b.cooldown_duration = 0 => b2.is_active
                          /\ b2.id = b.id /\ b2.progress = b.progress
                          /\ b2.active_duration = b.active_duration
                          /\ b2.cooldown_duration = b.cooldown_duration
                          /\ b2.upgrade_count = b.upgrade_count ]_vars

\* a frame has made a block that was never upgraded active again after its
\* cooldown of BLOCK_COOLDOWN_DURATION, while a block whose cooldown has
\* been brought to 0 is active
C28_Witness ==
    /\ op.name = "frame"
    /\ \E i \in 1..Len(game.blocks) :
           /\ game.blocks[i].is_active
           /\ game.blocks[i].spawn_ms = now
           /\ game.blocks[i].upgrade_count = 0
           /\ game.blocks[i].cooldown_duration = BLOCK_COOLDOWN_DURATION
    /\ \E j \in 1..Len(game.blocks) :
           /\ game.blocks[j].cooldown_duration = 0
           /\ game.blocks[j].is_active

\* ------------------------------------------------------------------
\* C29: the upgrade of a block
\* ------------------------------------------------------------------
\* what the k-th upgrade of a block takes off its cooldown_duration
Reduction(k) ==
    CASE k = 1 -> 10000
      [] k = 2 -> 5000
      [] k = 3 -> 2000
      [] OTHER -> 1000

RECURSIVE Reduced(_, _)
\* what is left of the cooldown_duration cd after the first n upgrades
Reduced(cd, n) ==
    IF n = 0 THEN cd
    ELSE Max(0, Reduced(cd, n - 1) - Reduction(n))

\* the blocks within reach of the click c
Reached(g, c) ==
    { i \in 1..Len(g.blocks) :
        within(c.progress, g.blocks[i].progress, BLOCK_RADIUS + 12, ClosePairs30) }

\* the step is a click on an installed block with a block pending
Upgrades ==
    /\ op'.name = "click"
    /\ op'.c.target = "field"
    /\ game.placing_block # None
    /\ Reached(game, op'.c) # {}

\* C29 (block upgrade): a click on an installed block while a block is
\* pending takes the pending block and adds no block to the field, sets
\* the target's active_duration to the larger of its value and
\* BLOCK_UPGRADED_DURATION and takes the k-th entry of (10, 5, 2, 1)
\* seconds off its cooldown_duration at the k-th upgrade, the last entry
\* from the fifth upgrade on, but no more than is left; no other step
\* changes the two durations, so that cooldown_duration never grows, is
\* never below 0, and is 0 from the sixteenth upgrade on
C29_BlockUpgrade ==
    /\ [](\A i \in 1..Len(game.blocks) :
             LET b == game.blocks[i]
             IN  /\ b.cooldown_duration >= 0
                 /\ b.cooldown_duration
                        = Reduced(BLOCK_COOLDOWN_DURATION, b.upgrade_count)
                 /\ b.upgrade_count >= 16 => b.cooldown_duration = 0)
    /\ [][ LET hit == IF Upgrades
                      THEN { CHOOSE i \in Reached(game, op'.c) :
                                 \A j \in Reached(game, op'.c) : j <= i }
                      ELSE {}
           IN  /\ Upgrades =>
                      /\ game'.placing_block = None
                      /\ Len(game'.blocks) = Len(game.blocks)
                      /\ game'.coins = game.coins
                      /\ game'.block_counter = game.block_counter
               /\ \A i \in 1..Len(game.blocks) :
                      i <= Len(game'.blocks) =>
                          LET b == game.blocks[i]
                              b2 == game'.blocks[i]
                          IN  IF i \in hit
                              THEN /\ b2.active_duration
                                         = Max(b.active_duration,
                                               BLOCK_UPGRADED_DURATION)
                                   /\ b2.cooldown_duration
                                         = Max(0, b.cooldown_duration
                                                  - Reduction(b.upgrade_count + 1))
                                   /\ b2.cooldown_duration <= b.cooldown_duration
                                   /\ b2.upgrade_count = b.upgrade_count + 1
                                   /\ b2.id = b.id /\ b2.progress = b.progress
                              ELSE /\ b2.active_duration = b.active_duration
                                   /\ b2.cooldown_duration = b.cooldown_duration
                                   /\ b2.upgrade_count = b.upgrade_count ]_vars

\* the sixteenth upgrade of a block has just brought its cooldown_duration
\* from one second to 0, a second block being as it was placed
C29_Witness ==
    /\ op.name = "click"
    /\ op.c.target = "field"
    /\ game.placing_block = None
    /\ Len(game.blocks) = 2
    /\ game.blocks[1].upgrade_count = 16
    /\ game.blocks[1].cooldown_duration = 0
    /\ game.blocks[1].active_duration = BLOCK_UPGRADED_DURATION
    /\ game.blocks[2].upgrade_count = 0
    /\ game.blocks[2].active_duration = BLOCK_DURATION
    /\ game.block_counter = 18

\* ------------------------------------------------------------------
\* C30: the reward of a storm
\* ------------------------------------------------------------------
\* the emitters whose counting window closes in the frame that ends at t
Closing(g, t) ==
    { i \in 1..Len(g.storm_emitters) :
        /\ g.storm_emitters[i].settle_at # 0
        /\ t >= g.storm_emitters[i].settle_at
        /\ g.storm_emitters[i].last_reward = 0 }

\* the emitter of g with the given id
EmitterOf(g, id) ==
    g.storm_emitters[CHOOSE j \in 1..Len(g.storm_emitters) :
                         g.storm_emitters[j].id = id]

\* the most a storm with the tally c pays
RewardCap(c) ==
    STORM_MIN_EGGS
    + ((STORM_MAX_EGGS - STORM_MIN_EGGS) * Min(c, STORM_WINDOW_TARGET))
      \div STORM_WINDOW_TARGET

RECURSIVE StormGain(_, _, _)
\* the rewards g2 records for the emitters of g among the first n that are
\* in the set closing
StormGain(closing, g2, n) ==
    IF n = 0 THEN 0
    ELSE StormGain(closing, g2, n - 1)
         + (IF n \in closing
            THEN EmitterOf(g2, game.storm_emitters[n].id).last_reward ELSE 0)

\* the coins that coin rain brings in the frame
RainGain ==
    IF "coin_rain" \in game.active_skills
    THEN COIN_RAIN_RATE * ((game.skill_coin_timer + op'.dt) \div 1000)
    ELSE 0

InWorld(p) == session.pc[p] \in {"update", "render", "call", "toggle", "copy"}

\* the thread that takes the step holds the lock
ByHolder ==
    \E p \in {Worker} \cup Handlers :
        /\ session.lock = Some(p)
        /\ session'.pc[p] # session.pc[p]

\* C22 (wrapper serialization): a thread that is at a statement which
\* reads or changes the game (update, the render with remaining_time,
\* handle_click, handle_right_click, reset_round, the pause toggle, the
\* copy of the frame) holds the session lock, so no two threads are at
\* such statements at once; the game, the pause flag and the last frame
\* change only in steps of the thread that holds the lock; and what
\* get_frame returns is the frame last rendered, copied by the holder
C22_Serialized ==
    /\ [](\A p \in {Worker} \cup Handlers : InWorld(p) => session.lock = Some(p))
    /\ [](Cardinality({ p \in {Worker} \cup Handlers : InWorld(p) }) <= 1)
    /\ [][ /\ (game' # game \/ session'.paused # session.paused
                 \/ session'.last_frame # session.last_frame) => ByHolder
           /\ \A h \in Handlers :
                  session'.returned[h] # session.returned[h] =>
                      /\ session.lock = Some(h)
                      /\ session.last_frame # None
                      /\ session'.returned[h] = session.last_frame ]_vars

\* a handler holds the lock and is about to call handle_click while the
\* worker, a frame's time measured, and the other handler, its request
\* taken, wait for the lock; a frame has been handed out before
C22_Witness ==
    /\ session.lock = Some(1)
    /\ session.pc[1] = "call"
    /\ session.request[1].kind = "click"
    /\ session.pc[Worker] = "acquire"
    /\ session.pc[2] = "acquire"
    /\ session.returned[1] # None
    /\ now > 0

\* ------------------------------------------------------------------
\* C31: the cap on the power-ups on the track
\* ------------------------------------------------------------------
\* the pads of g that have gone by g2
PadsGone(g, g2) ==
    { i \in 1..Len(g.bouncers) :
        \A j \in 1..Len(g2.bouncers) : g2.bouncers[j].id # g.bouncers[i].id }

\* the power-ups put on the track in the step
Issued(g, g2) == g2.powerup_counter - g.powerup_counter

\* C31 as stated (power-up cap): in every reachable state at most
\* POWERUP_MAX_ACTIVE power-ups lie on the track
C31_CapAsStated == Len(game.track_powerups) <= POWERUP_MAX_ACTIVE

\* C31 (power-up cap, timed spawns): as long as no pad has been set down
\* at most POWERUP_MAX_ACTIVE power-ups lie on the track; a step in which
\* no pad drops its supply puts at most one power-up on the track, and
\* only one that leaves at most POWERUP_MAX_ACTIVE there, so that the
\* number never rises above max(number before, POWERUP_MAX_ACTIVE); a
\* step in which pads drop adds BOUNCER_DROP_MIN to BOUNCER_DROP_MAX for
\* each pad, whatever the number on the track
C31_TimedCap ==
    /\ [](game.bouncer_counter = 0 =>
              Len(game.track_powerups) <= POWERUP_MAX_ACTIVE)
    /\ [][ LET n == Len(game.track_powerups)
               n2 == Len(game'.track_powerups)
               gone == Cardinality(PadsGone(game, game'))
           IN  IF gone = 0 \/ game'.powerup_counter < game.powerup_counter
               THEN /\ game'.powerup_counter >= game.powerup_counter =>
                           Issued(game, game') \in {0, 1}
                    /\ Issued(game, game') = 1 => n2 <= POWERUP_MAX_ACTIVE
                    /\ n2 <= Max(n, POWERUP_MAX_ACTIVE)
               ELSE /\ Issued(game, game') >= 0
                    /\ Issued(game, game') <= gone * BOUNCER_DROP_MAX + 1
                    /\ n2 <= n + Issued(game, game') ]_vars

\* a frame has passed with more than POWERUP_MAX_ACTIVE power-ups on the
\* track, the pad that dropped them gone, and the timed spawn overdue
C31_Witness ==
    /\ op.name = "frame"
    /\ Len(game.track_powerups) > POWERUP_MAX_ACTIVE
    /\ game.bouncer_counter = 1
    /\ game.bouncers = <<>>
    /\ game.round_active
    /\ game.powerup_spawn_timer >= game.powerup_spawn_delay

\* ------------------------------------------------------------------
\* C32: the span of a turbo zone
\* ------------------------------------------------------------------
\* C32 (turbo span): every placed turbo zone has start_progress <
\* end_progress and a span end_progress - start_progress of at least
\* TURBO_PIPE_LENGTH
C32_TurboSpan ==
    \A i \in 1..Len(game.turbo_pipes) :
        /\ game.turbo_pipes[i].start_progress < game.turbo_pipes[i].end_progress
        /\ game.turbo_pipes[i].end_progress - game.turbo_pipes[i].start_progress
               >= TURBO_PIPE_LENGTH

\* a zone has been laid by a click half-way between two nodes, and it
\* spans the one node spacing between them
C32_Witness ==
    /\ op.name = "click"
    /\ op.c.target = "field"
    /\ op.c.progress = NodeProgress(20) + NodeStep \div 2
    /\ \E i \in 1..Len(game.turbo_pipes) :
           /\ game.turbo_pipes[i].start_progress = NodeProgress(20)
           /\ game.turbo_pipes[i].end_progress = NodeProgress(21)

\* ------------------------------------------------------------------
\* C33: the direction of a teleport
\* ------------------------------------------------------------------
\* C33 (portal direction): whenever a teleport fires, the ball's distance
\* right after it is greater than the distance of the entry portal
C33_WarpsForward ==
    [][ Ticks =>
          \A k \in 1..Len(steps') :
              steps'[k].teleported =>
                  steps'[k].after.distance
                      > progress_to_distance(entry_portal(game).progress) ]_vars

\* a frame in which a ball crossed the entry portal and ended half a node
\* spacing after the exit portal, behind the entry portal
C33_Witness ==
    /\ op.name = "frame"
    /\ Len(game.portals) = 2
    /\ \E k \in 1..Len(steps) :
           /\ steps[k].teleported
           /\ ~steps[k].after.in_pipe
           /\ steps[k].after.distance
                  = progress_to_distance(exit_portal(game).progress)
                    + BALL_RADIUS * 1500
           /\ steps[k].after.distance
                  < progress_to_distance(entry_portal(game).progress)

\* ------------------------------------------------------------------
\* C34: score and result
\* ------------------------------------------------------------------
\* the step calls reset_round
Resets == op'.level > 0

\* C34 (score and result agree): in every reachable state round_result is
\* "success" exactly when the score is at least the target of the current
\* level, and the score never decreases in a step that is not a reset
C34_ScoreResult ==
    /\ []((game.round_result = "success") <=> (game.score >= level_target(game)))
    /\ [][ Resets \/ game'.score >= game.score ]_vars

\* the round was won while it ran and the score has grown since, beyond
\* the target by more than any one ball or storm brings
C34_Witness ==
    /\ op.name = "frame"
    /\ game.round_result = "success"
    /\ game.round_active
    /\ game.score > level_target(game) + STORM_MAX_EGGS

\* ------------------------------------------------------------------
\* C35: the purse and the charges
\* ------------------------------------------------------------------
\* the charges of the three consumables
ChargesOf(g) ==
    <<g.speed_boost_charges, g.storm_charges, g.bouncepad_charges>>

\* C35 (non-negative economy): in every reachable state coins and the
\* charges of speed boost, storm and bounce pad are at least 0; a step
\* that is not a reset takes from the purse no more than it held and takes
\* at most one charge of a kind, and only of a kind that had one
C35_NonNegative ==
    /\ [](/\ game.coins >= 0
          /\ \A k \in 1..3 : ChargesOf(game)[k] >= 0)
    /\ [][ Resets \/
           /\ game.coins - game'.coins <= game.coins
           /\ \A k \in 1..3 :
                  ChargesOf(game')[k] < ChargesOf(game)[k] =>
                      /\ ChargesOf(game)[k] > 0
                      /\ ChargesOf(game')[k] = ChargesOf(game)[k] - 1 ]_vars

\* the purse is not empty, and the shop has just refused a gadget that
\* costs more than it holds; a charge of the speed boost has been used,
\* and none is left
C35_Witness ==
    /\ op.name = "click"
    /\ op.c.target = "turbo_button"
    /\ ~any_placing(game)
    /\ game.round_start_ms # None
    /\ game.coins > 0
    /\ game.coins < next_turbo_cost(game)
    /\ game.turbo_counter = 0
    /\ boosted # None
    /\ game.speed_boost_charges = 0

\* C36 (ended round is frozen): a step taken with round_active false that
\* does not call reset_round leaves score and round_result as they were,
\* and leaves the round ended; a "fail" is never followed by "success"
\* without a reset in between
C36_EndedFrozen ==
    [][ (~game.round_active /\ ~Resets) =>
            /\ game'.score = game.score
            /\ game'.round_result = game.round_result
            /\ ~game'.round_active ]_vars

\* the round has failed; in the frame just past a ball has reached the
\* end of the track and the window of a storm emitter has closed, and
\* the score is still short of the target
C36_Witness ==
    /\ op.name = "frame"
    /\ ~game.round_active
    /\ game.round_result = "fail"
    /\ \E k \in DOMAIN steps : steps[k].completed
    /\ \E i \in DOMAIN game.storm_emitters :
           /\ game.storm_emitters[i].last_reward > 0
           /\ game.storm_emitters[i].animation_until
                  = now + STORM_ANIMATION_DURATION
    /\ game.score < level_target(game)

\* C37 as stated (storm pays once): no storm emitter on the track has paid
\* more than once since the session began, the levels it was carried
\* through included
C37_PaysOnce == \A e \in paid : e[2] <= 1

\* C37 (storm pays once in a round): an emitter that has settled keeps its
\* last_reward until it leaves the track or reset_round is called, so that
\* it pays at most once between two resets; an emitter carried forward is
\* armed again, and has paid at most once for each of the levels up to
\* the current one in which storms are enabled
C37_PaysOncePerRound ==
    /\ [](\A e \in paid :
              e[2] <= Cardinality({ l \in 1..game.current_level :
                             storm_enabled([game EXCEPT !.current_level = l]) }))
    /\ [][ ~Resets =>
             \A i \in StormIds(game) \cap StormIds(game') :
                 /\ StormOf(game, i).last_reward > 0 =>
                        StormOf(game', i).last_reward
                            = StormOf(game, i).last_reward
                 /\ TimesPaid(paid', i) <= TimesPaid(paid, i) + 1 ]_vars

\* an emitter that paid in the level before has been carried forward and
\* has just paid again
C37_Witness ==
    /\ op.name = "frame"
    /\ game.current_level = max_level
    /\ \E i \in StormIds(game) :
           /\ TimesPaid(paid, i) = 2
           /\ StormOf(game, i).last_reward > 0
           /\ StormOf(game, i).animation_until = now + STORM_ANIMATION_DURATION

\* the round state of the game: the round's flags, the score, the purse,
\* the balls and the gadgets
RoundState(g) ==
    << g.round_active, g.round_result, g.score, g.coins, g.balls,
       g.pipes, g.blocks, g.turbo_pipes, g.bouncers, g.storm_emitters,
       g.portals >>

\* a step of the worker thread
WorkerStep == session'.pc[Worker] # session.pc[Worker]

\* C38 (pause freezes the world): a step of the worker loop taken while
\* the session is paused leaves the round state of the game as it was
C38_PauseFreezes ==
    [][ (session.paused /\ WorkerStep) =>
            RoundState(game') = RoundState(game) ]_vars

\* the round has failed in the worker's render while the session was
\* paused: the pause began before the first ball was spawned
C38_Witness ==
    /\ session.paused
    /\ session.pc[Worker] = "release"
    /\ op.name = "render"
    /\ game.round_start_ms # None
    /\ ~game.round_active
    /\ game.round_result = "fail"
    /\ game.spawned_ball_count = 0

\* the ball of the step st has moved on: along the track, or down the pipe
\* it is in
Advanced(st) ==
    \/ st.after.distance > st.before.distance
    \/ /\ st.after.distance = st.before.distance
       /\ st.before.in_pipe
       /\ st.after.pipe_y > st.before.pipe_y

\* C39 (ball progress): with no portal placed, every frame moves every
\* ball that stays in play on, whatever is built, upgraded and removed
\* meanwhile and whether or not the round is still active; and when the
\* frames keep occurring the balls in play are eventually all out of
\* play, for good once the round is over and no more are spawned
C39_BallProgress ==
    /\ [][ Ticks => \A k \in DOMAIN steps' :
                        steps'[k].completed \/ Advanced(steps'[k]) ]_vars
    /\ <>[](game.balls = <<>>)

\* the round is over and the pipe has been removed with balls inside; in
\* the frame just past the last of them has reached the end of the track
C39_Witness ==
    /\ op.name = "frame"
    /\ ~game.round_active
    /\ game.balls = <<>>
    /\ game.pipes = <<>>
    /\ game.portals = <<>>
    /\ \E k \in DOMAIN steps : steps[k].completed /\ steps[k].before.in_pipe

\* C40 (portal pair invariant): at most two portals are placed; the pair
\* is active or cooling only when exactly two are placed; and a frame
\* teleports a ball only when it begins with two portals placed and the
\* pair active
C40_PortalPair ==
    /\ [](/\ Len(game.portals) <= 2
          /\ game.portal_state \in {"inactive", "active", "cooldown"}
          /\ game.portal_state \in {"active", "cooldown"} =>
                 Len(game.portals) = 2)
    /\ [][ (Ticks /\ \E k \in DOMAIN steps' : steps'[k].teleported) =>
               /\ Len(game.portals) = 2
               /\ game.portal_state = "active" ]_vars

\* a third portal has been bought and placed, two are on the track, and
\* the frame just past has teleported a ball and ended the active window
C40_Witness ==
    /\ op.name = "frame"
    /\ game.portal_counter > 2
    /\ Len(game.portals) = 2
    /\ game.portal_state = "cooldown"
    /\ \E k \in DOMAIN steps : steps[k].teleported

=============================================================================
